---- MODULE Spec2Model ----
(***************************************************************************)
(* A model of the prediction scoring engine: the asset resolver, the       *)
(* prediction loader, ranking/selection, the prediction scorer with its    *)
(* market-data and technical-bias inputs, the batch run, the L1 and L2     *)
(* message validation and metrics, the consumer scripts, the composite     *)
(* sentiment scorer and the sentiment service, the price history behind    *)
(* the market data, and the entry/target score in float arithmetic.        *)
(*                                                                         *)
(* Text is modelled as a sequence of one-character strings, so that        *)
(* strip / upper / replace / endswith / isalpha are computed, not assumed. *)
(* Python's None is the one-element sequence None where text is expected;  *)
(* values of mixed type are tagged records.                                *)
(***************************************************************************)
EXTENDS Integers, Sequences, FiniteSets, TLC

VARIABLES
    registry,     \* asset_registry.ASSET_REGISTRY, the catalogue (a module-level dict)
    resolveIn,    \* the user_input of the latest resolve_asset call
    resolveOut,   \* what that call returned: [key, data]
    predFile,     \* the predictions file given to load_predictions_json
    loaded,       \* what load_predictions_json returned or raised
    rankTable,    \* the DataFrame given to add_selection_flags
    rankArgs,     \* its keyword arguments
    ranked,       \* the 'selected' column of the DataFrame it returned
    world,        \* what the market-data providers answer
    binance_client, \* the exchange client handed to the scorer, or None
    predIn,       \* the prediction given to the scorer
    momentumsOut, \* what get_momentums returned or raised for it
    techOut,      \* what get_technical_bias returned or raised for it
    scored,       \* what score_prediction returned or raised for it
    environ,      \* main.py: which credential environment variables are set
    batchPreds,   \* main.py: the predictions of the run
    batchState,   \* main.py: where the run is
    scored_rows,  \* main.py: scored_rows
    batchSelected, \* main.py: the 'selected' column of the final table
    outputs,      \* main.py: the files of the outputs directory
    runsLeft,     \* main.py: how many more times the batch is run
    l1Msg,        \* the L1 message the consumer polled
    l1Now,        \* time.time() when it is validated, in microseconds
    l1Valid,      \* what validate_l1 returned or raised
    l1Metrics,    \* what compute_l1_metrics returned or raised
    l2Msg,        \* the L2 message the consumer polled
    l2Pct,        \* the pct given to compute_depth_l2, in hundredths
    l2Now,        \* time.time() when it is validated, in microseconds
    l2Valid,      \* what validate_l2 returned or raised
    l2Depth,      \* what compute_depth_l2 returned or raised
    csWeights,    \* CompositeScorer.weights, in twentieths
    csSignals,    \* the signals given to CompositeScorer.score
    csResult,     \* what CompositeScorer.score returned
    apiFiles,     \* the files the sentiment service reads and writes
    apiHeader,    \* the X-API-Key header of the latest request to /sentiment
    apiAsset,     \* its asset query parameter
    apiResponse,  \* the response it was given
    apiOrchestrated, \* how many times a SentimentOrchestrator was constructed
    apiRequests,  \* how many requests were answered
    mkPath,       \* the traded price of a crypto asset at each tick of time
    mkT,          \* the evaluation timestamp of the prediction, in ticks
    mkNow,        \* the time at which the prediction is scored, in ticks
    mkTicker,     \* whether get_symbol_ticker answers at that time
    mkInputs,     \* what the market-data functions derived for the prediction
    etIn,         \* the six sub-scores given to compute_entry_target_score, in thousandths
    etOut,        \* the float it returned
    conKind,      \* which consumer runs: L1/run.py or L2/run.py
    conPc,        \* where its script is
    conData,      \* the message the latest poll returned
    conPolls,     \* how many polls it made
    conPrinted,   \* how many metrics blocks it printed
    conClosed,    \* how many times consumer.close() was called
    conExit,      \* how the script ended: returned, or the exception that left it
    orchAssets,   \* orchestrator: the assets argument of SentimentOrchestrator
    orchDisk,     \* orchestrator: the raw volatility files and the persisted tables
    orchPc,       \* orchestrator: what has run (the builder, collect_signals)
    orchSignals,  \* orchestrator: what collect_signals returned
    scrInstalled, \* scraper.py: the step functions the installation can import
    scrPc,        \* scraper.py: where the script is
    scrCalls,     \* scraper.py: the steps invoked so far, in order
    scrFailed,    \* scraper.py: the steps that raised
    cacheStore,   \* fundamentals.py: the entries of each lru_cache, least recently used first
    cacheRequests, \* fundamentals.py: the external requests issued so far
    cacheSeen,    \* fundamentals.py: the first value returned for each lookup and argument
    cacheCall,    \* fundamentals.py: the last call and what it returned
    sideIn,       \* scoring.py: the direction, momentum, bias, entry and spot of one call
    sideOut,      \* scoring.py: the side each sub-engine used and what it came to
    stDisk,       \* save_utils.py: the .parquet and .csv file of one base path
    stSaved,      \* save_utils.py: the last save that returned normally
    stLoaded,     \* orchestrator.py: what _load_df returned after it
    stSaves,      \* save_utils.py: the number of saves so far
    relIn,        \* scoring.py: the confidence, structural reliability and entry score of one call
    relOut,       \* scoring.py: the scores and the label of its row
    riskIn,       \* the argument of one get_economic_event_risk call and the calendar fetched
    riskOut       \* the risk it returned, in hundredths

resolveVars == <<registry, resolveIn, resolveOut>>

loaderVars == <<predFile, loaded>>

rankVars == <<rankTable, rankArgs, ranked>>

worldVars == <<world, binance_client>>

scoreVars == <<predIn, momentumsOut, techOut, scored>>

batchVars ==
    <<environ, batchPreds, batchState, scored_rows, batchSelected, outputs,
      runsLeft>>

l1Vars == <<l1Msg, l1Now, l1Valid, l1Metrics>>

l2Vars == <<l2Msg, l2Pct, l2Now, l2Valid, l2Depth>>

compositeVars == <<csWeights, csSignals, csResult>>

apiVars == <<apiFiles, apiHeader, apiAsset, apiResponse, apiOrchestrated, apiRequests>>

historyVars == <<mkPath, mkT, mkNow, mkTicker, mkInputs>>

entryVars == <<etIn, etOut>>

consumerVars == <<conKind, conPc, conData, conPolls, conPrinted, conClosed, conExit>>

orchVars == <<orchAssets, orchDisk, orchPc, orchSignals>>

scraperVars == <<scrInstalled, scrPc, scrCalls, scrFailed>>

cacheVars == <<cacheStore, cacheRequests, cacheSeen, cacheCall>>

sideVars == <<sideIn, sideOut>>

storeVars == <<stDisk, stSaved, stLoaded, stSaves>>

relVars == <<relIn, relOut>>

riskVars == <<riskIn, riskOut>>

vars ==
    <<resolveVars, loaderVars, rankVars, worldVars, scoreVars, batchVars,
      l1Vars, l2Vars, compositeVars, apiVars, historyVars, entryVars,
      consumerVars, orchVars, scraperVars, cacheVars, sideVars, storeVars,
      relVars, riskVars>>

\* what the actions of one component leave unchanged
exceptResolve ==
    <<loaderVars, rankVars, worldVars, scoreVars, batchVars, l1Vars,
      l2Vars, compositeVars, apiVars, historyVars, entryVars,
      consumerVars, orchVars, scraperVars, cacheVars, sideVars, storeVars,
      relVars, riskVars>>

exceptLoader ==
    <<resolveVars, rankVars, worldVars, scoreVars, batchVars, l1Vars,
      l2Vars, compositeVars, apiVars, historyVars, entryVars,
      consumerVars, orchVars, scraperVars, cacheVars, sideVars, storeVars,
      relVars, riskVars>>

exceptRank ==
    <<resolveVars, loaderVars, worldVars, scoreVars, batchVars, l1Vars,
      l2Vars, compositeVars, apiVars, historyVars, entryVars,
      consumerVars, orchVars, scraperVars, cacheVars, sideVars, storeVars,
      relVars, riskVars>>

exceptScore ==
    <<resolveVars, loaderVars, rankVars, batchVars, l1Vars, l2Vars,
      compositeVars, apiVars, historyVars, entryVars, consumerVars,
      orchVars, scraperVars, cacheVars, sideVars, storeVars, relVars,
      riskVars>>

exceptBatch ==
    <<resolveVars, loaderVars, rankVars, scoreVars, l1Vars, l2Vars,
      compositeVars, apiVars, historyVars, entryVars, consumerVars,
      orchVars, scraperVars, cacheVars, sideVars, storeVars, relVars,
      riskVars>>

exceptL1 ==
    <<resolveVars, loaderVars, rankVars, worldVars, scoreVars, batchVars,
      l2Vars, compositeVars, apiVars, historyVars, entryVars,
      consumerVars, orchVars, scraperVars, cacheVars, sideVars, storeVars,
      relVars, riskVars>>

exceptL2 ==
    <<resolveVars, loaderVars, rankVars, worldVars, scoreVars, batchVars,
      l1Vars, compositeVars, apiVars, historyVars, entryVars,
      consumerVars, orchVars, scraperVars, cacheVars, sideVars, storeVars,
      relVars, riskVars>>

exceptComposite ==
    <<resolveVars, loaderVars, rankVars, worldVars, scoreVars, batchVars,
      l1Vars, l2Vars, apiVars, historyVars, entryVars, consumerVars,
      orchVars, scraperVars, cacheVars, sideVars, storeVars, relVars,
      riskVars>>

exceptApi ==
    <<resolveVars, loaderVars, rankVars, worldVars, scoreVars, batchVars,
      l1Vars, l2Vars, compositeVars, historyVars, entryVars, consumerVars,
      orchVars, scraperVars, cacheVars, sideVars, storeVars, relVars,
      riskVars>>

exceptHistory ==
    <<resolveVars, loaderVars, rankVars, worldVars, scoreVars, batchVars,
      l1Vars, l2Vars, compositeVars, apiVars, entryVars, consumerVars,
      orchVars, scraperVars, cacheVars, sideVars, storeVars, relVars,
      riskVars>>

exceptEntry ==
    <<resolveVars, loaderVars, rankVars, worldVars, scoreVars, batchVars,
      l1Vars, l2Vars, compositeVars, apiVars, historyVars, consumerVars,
      orchVars, scraperVars, cacheVars, sideVars, storeVars, relVars,
      riskVars>>

exceptConsumer ==
    <<resolveVars, loaderVars, rankVars, worldVars, scoreVars, batchVars,
      l1Vars, l2Vars, compositeVars, apiVars, historyVars, entryVars,
      orchVars, scraperVars, cacheVars, sideVars, storeVars, relVars,
      riskVars>>

exceptOrch ==
    <<resolveVars, loaderVars, rankVars, worldVars, scoreVars, batchVars,
      l1Vars, l2Vars, compositeVars, apiVars, historyVars, entryVars,
      consumerVars, scraperVars, cacheVars, sideVars, storeVars, relVars,
      riskVars>>

exceptScraper ==
    <<resolveVars, loaderVars, rankVars, worldVars, scoreVars, batchVars,
      l1Vars, l2Vars, compositeVars, apiVars, historyVars, entryVars,
      consumerVars, orchVars, cacheVars, sideVars, storeVars, relVars,
      riskVars>>

exceptCache ==
    <<resolveVars, loaderVars, rankVars, worldVars, scoreVars, batchVars,
      l1Vars, l2Vars, compositeVars, apiVars, historyVars, entryVars,
      consumerVars, orchVars, scraperVars, sideVars, storeVars, relVars,
      riskVars>>

exceptSide ==
    <<resolveVars, loaderVars, rankVars, worldVars, scoreVars, batchVars,
      l1Vars, l2Vars, compositeVars, apiVars, historyVars, entryVars,
      consumerVars, orchVars, scraperVars, cacheVars, storeVars, relVars,
      riskVars>>

exceptStore ==
    <<resolveVars, loaderVars, rankVars, worldVars, scoreVars, batchVars,
      l1Vars, l2Vars, compositeVars, apiVars, historyVars, entryVars,
      consumerVars, orchVars, scraperVars, cacheVars, sideVars, relVars,
      riskVars>>

exceptRel ==
    <<resolveVars, loaderVars, rankVars, worldVars, scoreVars, batchVars,
      l1Vars, l2Vars, compositeVars, apiVars, historyVars, entryVars,
      consumerVars, orchVars, scraperVars, cacheVars, sideVars, storeVars,
      riskVars>>

exceptRisk ==
    <<resolveVars, loaderVars, rankVars, worldVars, scoreVars, batchVars,
      l1Vars, l2Vars, compositeVars, apiVars, historyVars, entryVars,
      consumerVars, orchVars, scraperVars, cacheVars, sideVars, storeVars,
      relVars>>

-----------------------------------------------------------------------------
(* Text helpers (Python str methods).                                      *)

None == <<"<None>">>

LowerLetters == <<"a","b","c","d","e","f","g","h","i","j","k","l","m",
                  "n","o","p","q","r","s","t","u","v","w","x","y","z">>
UpperLetters == <<"A","B","C","D","E","F","G","H","I","J","K","L","M",
                  "N","O","P","Q","R","S","T","U","V","W","X","Y","Z">>

Letters == {LowerLetters[i] : i \in 1..26} \cup {UpperLetters[i] : i \in 1..26}

Whitespace == {" ", "\t", "\n"}

\* str.upper() on one character
UpperChar(c) ==
    IF \E i \in 1..26 : LowerLetters[i] = c
    THEN UpperLetters[CHOOSE i \in 1..26 : LowerLetters[i] = c]
    ELSE c

\* str.lower() on one character
LowerChar(c) ==
    IF \E i \in 1..26 : UpperLetters[i] = c
    THEN LowerLetters[CHOOSE i \in 1..26 : UpperLetters[i] = c]
    ELSE c

Upper(s) == [i \in 1..Len(s) |-> UpperChar(s[i])]

Lower(s) == [i \in 1..Len(s) |-> LowerChar(s[i])]

RECURSIVE LStrip(_)
LStrip(s) ==
    IF s # <<>> /\ Head(s) \in Whitespace THEN LStrip(Tail(s)) ELSE s

RECURSIVE RStrip(_)
RStrip(s) ==
    IF s # <<>> /\ s[Len(s)] \in Whitespace
    THEN RStrip(SubSeq(s, 1, Len(s) - 1))
    ELSE s

\* str.strip()
Strip(s) == RStrip(LStrip(s))

\* str.replace(c, "") for a one-character c
RemoveChar(s, c) == SelectSeq(s, LAMBDA x : x # c)

\* str.startswith / str.endswith
StartsWith(s, pre) ==
    Len(pre) <= Len(s) /\ SubSeq(s, 1, Len(pre)) = pre

EndsWith(s, suf) ==
    Len(suf) <= Len(s) /\ SubSeq(s, Len(s) - Len(suf) + 1, Len(s)) = suf

\* str.replace(sub, "") for a non-empty sub: every non-overlapping
\* occurrence, scanning from the left
RECURSIVE RemoveAll(_, _)
RemoveAll(s, sub) ==
    IF s = <<>> THEN <<>>
    ELSE IF StartsWith(s, sub) THEN RemoveAll(SubSeq(s, Len(sub) + 1, Len(s)), sub)
    ELSE <<Head(s)>> \o RemoveAll(Tail(s), sub)

\* str.isalpha(): non-empty and every character a letter
IsAlpha(s) == s # <<>> /\ \A i \in 1..Len(s) : s[i] \in Letters

\* truthiness of a text-or-None value
Truthy(v) == v # None /\ v # <<>>

\* dict.get(k) on a dict modelled as a function
Get(d, k) == IF k \in DOMAIN d THEN d[k] ELSE None

\* Python's  a or b
Or(a, b) == IF Truthy(a) THEN a ELSE b

-----------------------------------------------------------------------------
(* asset_registry.py                                                       *)

sBTC == <<"B","T","C">>
sETH == <<"E","T","H">>
sSOL == <<"S","O","L">>
sUSDT == <<"U","S","D","T">>
sEURUSD == <<"E","U","R","U","S","D">>
sGBPUSD == <<"G","B","P","U","S","D">>
sUSDJPY == <<"U","S","D","J","P","Y">>
sXAUUSD == <<"X","A","U","U","S","D">>
sXAGUSD == <<"X","A","G","U","S","D">>
sSP500 == <<"S","P","5","0","0">>
sNASDAQ == <<"N","A","S","D","A","Q">>
sDAX == <<"D","A","X">>
sNIKKEI == <<"N","I","K","K","E","I">>
sAAPL == <<"A","A","P","L">>
sNVDA == <<"N","V","D","A">>
sTSLA == <<"T","S","L","A">>
sMSFT == <<"M","S","F","T">>
sAMZN == <<"A","M","Z","N">>

Descriptor(c, t, y, f, fr) ==
    [canonical |-> c, type |-> t, yahoo |-> y, finnhub |-> f, fred |-> fr]

Crypto(c) ==
    c :> Descriptor(c, "crypto", c \o <<"-","U","S","D">>,
                    <<"B","I","N","A","N","C","E",":">> \o c \o sUSDT, None)

Stock(c) == c :> Descriptor(c, "stock", c, c, None)

ASSET_REGISTRY ==
    Crypto(sBTC) @@ Crypto(sETH) @@ Crypto(sSOL)
    @@ (sEURUSD :> Descriptor(sEURUSD, "forex", sEURUSD \o <<"=","X">>,
            <<"O","A","N","D","A",":","E","U","R","_","U","S","D">>,
            <<"D","E","X","U","S","E","U">>))
    @@ (sGBPUSD :> Descriptor(sGBPUSD, "forex", sGBPUSD \o <<"=","X">>,
            <<"O","A","N","D","A",":","G","B","P","_","U","S","D">>,
            <<"D","E","X","U","S","U","K">>))
    @@ (sUSDJPY :> Descriptor(sUSDJPY, "forex", sUSDJPY \o <<"=","X">>,
            <<"O","A","N","D","A",":","U","S","D","_","J","P","Y">>,
            <<"D","E","X","J","P","U","S">>))
    @@ (sXAUUSD :> Descriptor(sXAUUSD, "metal", <<"G","C","=","F">>,
            <<"O","A","N","D","A",":","X","A","U","_","U","S","D">>,
            <<"G","O","L","D","A","M","G","B","D","2","2","8","N","L","B","M">>))
    @@ (sXAGUSD :> Descriptor(sXAGUSD, "metal", <<"S","I","=","F">>,
            <<"O","A","N","D","A",":","X","A","G","_","U","S","D">>, None))
    @@ (sSP500 :> Descriptor(sSP500, "index", <<"^","G","S","P","C">>,
            <<"S","P","Y">>, None))
    @@ (sNASDAQ :> Descriptor(sNASDAQ, "index", <<"^","I","X","I","C">>,
            <<"Q","Q","Q">>, None))
    @@ (sDAX :> Descriptor(sDAX, "index", <<"^","G","D","A","X","I">>,
            <<"E","X","S","1",".","D","E">>, None))
    @@ (sNIKKEI :> Descriptor(sNIKKEI, "index", <<"^","N","2","2","5">>,
            <<"E","W","J">>, None))
    @@ Stock(sAAPL) @@ Stock(sNVDA) @@ Stock(sTSLA) @@ Stock(sMSFT) @@ Stock(sAMZN)

\* ALIASES as a set of <<spelling, canonical key>> pairs
ALIASES ==
    { <<sBTC \o sUSDT, sBTC>>, <<sETH \o sUSDT, sETH>>, <<sSOL \o sUSDT, sSOL>>,
      <<sBTC \o <<"-","U","S","D">>, sBTC>>,
      <<sETH \o <<"-","U","S","D">>, sETH>>,
      <<sSOL \o <<"-","U","S","D">>, sSOL>>,
      <<sEURUSD \o <<"=","X">>, sEURUSD>>,
      <<sGBPUSD \o <<"=","X">>, sGBPUSD>>,
      <<sUSDJPY \o <<"=","X">>, sUSDJPY>>,
      <<<<"^","G","S","P","C">>, sSP500>>,
      <<<<"^","S","P","X">>, sSP500>>,
      <<<<"^","I","X","I","C">>, sNASDAQ>>,
      <<<<"^","G","D","A","X","I">>, sDAX>>,
      <<<<"^","N","2","2","5">>, sNIKKEI>>,
      <<<<"G","C","=","F">>, sXAUUSD>>,
      <<<<"X","A","U","/","U","S","D">>, sXAUUSD>>,
      <<<<"X","A","U","-","U","S","D">>, sXAUUSD>>,
      <<<<"S","I","=","F">>, sXAGUSD>>,
      <<<<"X","A","G","/","U","S","D">>, sXAGUSD>>,
      <<<<"X","A","G","-","U","S","D">>, sXAGUSD>> }

InAliases(k) == \E p \in ALIASES : p[1] = k

AliasOf(k) == (CHOOSE p \in ALIASES : p[1] = k)[2]

\* _clean: (s or "").strip().upper().replace(" ", "")
Clean(s) == RemoveChar(Upper(Strip(IF Truthy(s) THEN s ELSE <<>>)), " ")

NoData == [none |-> TRUE]

\* AliasKey without the separator normalisation of line 166
AliasKey_KeepSeparators(user_input) ==
    LET raw == Or(Or(Or(Get(user_input, "asset"), Get(user_input, "symbol")),
                     Get(user_input, "ticker")), <<>>)
        a == Clean(raw)
        raw_up == Upper(Strip(IF Truthy(raw) THEN raw ELSE <<>>))
    IN  IF InAliases(raw_up) THEN AliasOf(raw_up)
        ELSE IF InAliases(a) THEN AliasOf(a)
        ELSE a

\* the key after the alias lookups (lines 162-175)
AliasKey(user_input) ==
    LET raw == Or(Or(Or(Get(user_input, "asset"), Get(user_input, "symbol")),
                     Get(user_input, "ticker")), <<>>)
        a == RemoveChar(RemoveChar(Clean(raw), "/"), "-")
        raw_up == Upper(Strip(IF Truthy(raw) THEN raw ELSE <<>>))
    IN  IF InAliases(raw_up) THEN AliasOf(raw_up)
        ELSE IF InAliases(a) THEN AliasOf(a)
        ELSE a

\* the USDT-suffix retry (lines 178-181)
SuffixRetry(reg, a_key) ==
    IF EndsWith(a_key, sUSDT) /\ a_key \notin DOMAIN reg
    THEN LET base == RemoveAll(a_key, sUSDT)
         IN  IF base \in DOMAIN reg /\ reg[base].type = "crypto"
             THEN base ELSE a_key
    ELSE a_key

\* the ticker rule with the isalpha() test dropped
LooksLikeTicker_LengthOnly(a_key) == 1 <= Len(a_key) /\ Len(a_key) <= 5

\* the alphabetic-ticker rule (line 189)
LooksLikeTicker(a_key) == IsAlpha(a_key) /\ 1 <= Len(a_key) /\ Len(a_key) <= 5

\* resolve_asset(user_input) against the catalogue reg: [key, data]
resolve_asset(reg, user_input) ==
    LET a_key == SuffixRetry(reg, AliasKey(user_input))
    IN  IF a_key \in DOMAIN reg
        THEN [key |-> a_key, data |-> reg[a_key]]
        ELSE IF LooksLikeTicker(a_key)
        THEN [key |-> a_key, data |-> Descriptor(a_key, "stock", a_key, a_key, None)]
        ELSE [key |-> a_key, data |-> NoData]

-----------------------------------------------------------------------------
(* Values read from a JSON document (json.loads), and Python floats.       *)
(* A finite float is a whole number of millionths; nan and the infinities  *)
(* are values of their own, as in Python.                                  *)

Micro == 1000000

Fin(v) == [k |-> "fin", v |-> v]
NaN == [k |-> "nan"]
Inf(sign) == [k |-> "inf", sign |-> sign]
NoFloat == [k |-> "none"]

JNull == [t |-> "null"]
JStr(s) == [t |-> "str", s |-> s]
JNum(f) == [t |-> "num", f |-> f]
JBool(b) == [t |-> "bool", b |-> b]
JList(items) == [t |-> "list", items |-> items]
JObj(o) == [t |-> "obj", o |-> o]

\* bool(v)
JTruthy(v) ==
    CASE v.t = "null" -> FALSE
      [] v.t = "str"  -> v.s # <<>>
      [] v.t = "num"  -> v.f # Fin(0)
      [] v.t = "bool" -> v.b
      [] v.t = "list" -> v.items # <<>>
      [] v.t = "obj"  -> DOMAIN v.o # {}

\* a or b
JOr(a, b) == IF JTruthy(a) THEN a ELSE b

\* dict.get(k) and dict.get(k, default)
JGet(o, k) == IF k \in DOMAIN o THEN o[k] ELSE JNull

JGetDefault(o, k, default) == IF k \in DOMAIN o THEN o[k] ELSE default

Digits == <<"0","1","2","3","4","5","6","7","8","9">>

IsDigit(c) == \E i \in 1..10 : Digits[i] = c

DigitValue(c) == (CHOOSE i \in 1..10 : Digits[i] = c) - 1

AllDigits(s) == \A i \in 1..Len(s) : IsDigit(s[i])

RECURSIVE NatValue(_)
NatValue(s) ==
    IF s = <<>> THEN 0
    ELSE 10 * NatValue(SubSeq(s, 1, Len(s) - 1)) + DigitValue(s[Len(s)])

\* the fraction digits as millionths (digits past the sixth are dropped)
FractionMicro(s) ==
    LET six == [i \in 1..6 |-> IF i <= Len(s) THEN s[i] ELSE "0"]
    IN  NatValue(six)

FloatError == [k |-> "err"]

\* digits with at most one point in body, as a float of the given sign
ParseDecimal(body, sign) ==
    LET dots == { i \in 1..Len(body) : body[i] = "." }
        dot == IF dots = {} THEN Len(body) + 1 ELSE CHOOSE i \in dots : TRUE
        whole == SubSeq(body, 1, dot - 1)
        frac == SubSeq(body, dot + 1, Len(body))
    IN  IF /\ Cardinality(dots) <= 1
           /\ AllDigits(whole) /\ AllDigits(frac)
           /\ Len(whole) + Len(frac) > 0
        THEN Fin(sign * (NatValue(whole) * Micro + FractionMicro(frac)))
        ELSE FloatError

\* the text after its sign: nan, inf / infinity, or a decimal
ParseUnsigned(body, sign) ==
    IF body = <<"n","a","n">> THEN NaN
    ELSE IF body \in {<<"i","n","f">>, <<"i","n","f","i","n","i","t","y">>}
    THEN Inf(sign)
    ELSE ParseDecimal(body, sign)

\* stripped, lower-cased text: an optional sign and the rest
ParseSigned(s) ==
    ParseUnsigned(IF s # <<>> /\ Head(s) \in {"+", "-"} THEN Tail(s) ELSE s,
                  IF s # <<>> /\ Head(s) = "-" THEN -1 ELSE 1)

\* float(text): surrounding whitespace, a sign, digits with at most one
\* point, or nan / inf / infinity in any letter case; anything else raises
\* ValueError (FloatError)
ParseFloat(text) == ParseSigned(Lower(Strip(text)))

\* float(x) for a JSON value: TypeError / ValueError are FloatError
ToFloat(x) ==
    CASE x.t = "num"  -> x.f
      [] x.t = "str"  -> ParseFloat(x.s)
      [] x.t = "bool" -> IF x.b THEN Fin(Micro) ELSE Fin(0)
      [] OTHER        -> FloatError

\* x / 100.0 (a float that could not be parsed stays the error)
Div100(f) == IF f.k = "fin" THEN Fin(f.v \div 100) ELSE f

\* abs(x)
Abs(f) ==
    CASE f.k = "fin" -> Fin(IF f.v < 0 THEN -f.v ELSE f.v)
      [] f.k = "inf" -> Inf(1)
      [] OTHER       -> f

\* x > c and x < c for a float x and a finite c in millionths (nan compares false)
Greater(f, c) ==
    CASE f.k = "fin" -> f.v > c
      [] f.k = "inf" -> f.sign = 1
      [] OTHER       -> FALSE

Less(f, c) ==
    CASE f.k = "fin" -> f.v < c
      [] f.k = "inf" -> f.sign = -1
      [] OTHER       -> FALSE

-----------------------------------------------------------------------------
(* data_loader.py                                                          *)

\* except Exception: return default
OrDefault(f, default) == IF f = FloatError THEN default ELSE f

\* isinstance(x, str) and x.strip().endswith("%")
IsPercentText(x) == x.t = "str" /\ EndsWith(Strip(x.s), <<"%">>)

\* _safe_float(x, default): default is a float or NoFloat (None)
Loader_safe_float(x, default) ==
    IF x.t = "null" THEN default
    ELSE OrDefault(IF IsPercentText(x)
                   THEN Div100(ParseFloat(RemoveChar(Strip(x.s), "%")))
                   ELSE ToFloat(x),
                   default)

\* int(f): truncates toward zero; int() of nan or of an infinity raises and
\* gives the default
IntOrDefault(f, default) ==
    IF f = FloatError \/ f.k # "fin" THEN default
    ELSE IF f.v >= 0 THEN f.v \div Micro ELSE -((-f.v) \div Micro)

\* _safe_int(x, default): int(float(x))
Loader_safe_int(x, default) ==
    IF x.t = "null" THEN default ELSE IntOrDefault(ToFloat(x), default)

Raised(e) == [raised |-> e]

IsRaised(r) == "raised" \in DOMAIN r

\* (x or "").strip(): the text, or AttributeError for a truthy value that is
\* not text
OrEmptyStrip(x) ==
    IF ~JTruthy(x) THEN <<>>
    ELSE IF x.t = "str" THEN Strip(x.s)
    ELSE None

\* _normalize_asset on text already stripped and upper-cased by the caller
NormalizeAssetText(a) ==
    IF a = <<>> THEN <<>>
    ELSE IF (\E i \in 1..Len(a) : a[i] \in {"=", "^"}) \/ EndsWith(a, <<"=","F">>)
    THEN a
    ELSE IF a \in {sBTC, sETH, sSOL} THEN a \o sUSDT
    ELSE a

\* _normalize_direction on text already stripped and upper-cased
NormalizeDirectionText(d) ==
    IF d \in {<<"B","U","Y">>, <<"L","O","N","G">>} THEN "BUY"
    ELSE IF d \in {<<"S","E","L","L">>, <<"S","H","O","R","T">>} THEN "SELL"
    ELSE "BUY"

\* _clamp01(x, default)
Clamp01(x, default) ==
    IF x = NoFloat THEN default
    ELSE IF Less(x, 0) THEN Fin(0)
    ELSE IF Greater(x, Micro) THEN Fin(Micro)
    ELSE x

\* lines 100-107 on v = abs(v)
PercentHeuristic(v) ==
    IF Greater(v, Micro) THEN Div100(v)
    ELSE IF Greater(v, 200000) THEN Div100(v)
    ELSE v

\* lines 95-98 on v = _safe_float(move_pct, default=None)
MoveMagnitude(v) == IF v = NoFloat THEN NoFloat ELSE PercentHeuristic(Abs(v))

\* _normalize_move_pct
normalize_move_pct(move_pct) == MoveMagnitude(Loader_safe_float(move_pct, NoFloat))

Max(a, b) == IF a >= b THEN a ELSE b

Min(a, b) == IF a <= b THEN a ELSE b

NowIso == JStr(<<"n","o","w">>)

\* max(1, min(int(horizon or 1), 24))
ClampHorizon(horizon) == Max(1, Min(IF horizon = 0 THEN 1 ELSE horizon, 24))

\* conf = p.get("confidence"); if conf is None: conf = p.get("user_confidence")
ConfidenceField(p) ==
    IF JGet(p, "confidence") = JNull THEN JGet(p, "user_confidence")
    ELSE JGet(p, "confidence")

\* the record built at lines 140-154 from the normalized asset and
\* direction text (None where .strip() raised AttributeError)
PredictionRecord(p, assetText, dirText) ==
    IF assetText = None \/ dirText = None THEN Raised("AttributeError")
    ELSE [ user_id |-> JOr(JOr(JGet(p, "user_id"), JGet(p, "user")), JGet(p, "uid")),
           submission_id |-> JOr(JGet(p, "submission_id"), JGet(p, "id")),
           timestamp |-> JOr(JOr(JGet(p, "timestamp"), JGet(p, "time")), NowIso),
           asset |-> NormalizeAssetText(Upper(assetText)),
           direction |-> NormalizeDirectionText(Upper(dirText)),
           confidence |-> Clamp01(Loader_safe_float(ConfidenceField(p), Fin(500000)),
                                  Fin(500000)),
           horizon_hours |-> ClampHorizon(Loader_safe_int(JGet(p, "horizon_hours"), 1)),
           entry_price |-> Loader_safe_float(JGet(p, "entry_price"), NoFloat),
           move_pct |-> normalize_move_pct(JGet(p, "move_pct")) ]

\* _normalize_prediction(p) for a dict p: the record, or the exception raised
normalize_prediction(p) ==
    PredictionRecord(p,
        OrEmptyStrip(JGetDefault(p, "asset", JStr(<<>>))),
        OrEmptyStrip(JGetDefault(p, "direction", JStr(<<"B","U","Y">>))))

\* str(n) for a natural number n
RECURSIVE NatText(_)
NatText(n) ==
    IF n < 10 THEN <<Digits[n + 1]>>
    ELSE NatText(n \div 10) \o <<Digits[(n % 10) + 1]>>

\* str(v) inside the f-string of line 197, for the values a user id takes
\* here: text, a JSON integer, true / false
PyStr(v) ==
    CASE v.t = "str"  -> v.s
      [] v.t = "bool" -> IF v.b THEN <<"T","r","u","e">> ELSE <<"F","a","l","s","e">>
      [] v.t = "num" /\ v.f.k = "fin" /\ v.f.v % Micro = 0 ->
            IF v.f.v < 0 THEN <<"-">> \o NatText((-v.f.v) \div Micro)
            ELSE NatText(v.f.v \div Micro)

\* pred["submission_id"] = f"{pred['user_id']}-{i}" when it is empty
WithSubmissionId(pred, i) ==
    IF JTruthy(pred.submission_id) THEN pred
    ELSE [pred EXCEPT !.submission_id =
              JStr(PyStr(pred.user_id) \o <<"-">> \o NatText(i))]

\* one turn of the loop for the object at position i, given its normalized
\* record pred and what the rest of the loop gives
LoadItem(pred, i, rest) ==
    IF IsRaised(pred) THEN pred
    ELSE IF pred.asset = <<>> \/ ~JTruthy(pred.user_id) THEN rest
    ELSE IF IsRaised(rest) THEN rest
    ELSE [rows |-> <<WithSubmissionId(pred, i)>> \o rest.rows]

\* the loop of lines 184-199 from the item at zero-based position i on:
\* the rows appended, or the exception that ends the call
RECURSIVE LoadFrom(_, _)
LoadFrom(items, i) ==
    IF i >= Len(items) THEN [rows |-> <<>>]
    ELSE IF items[i + 1].t # "obj" THEN LoadFrom(items, i + 1)
    ELSE LoadItem(normalize_prediction(items[i + 1].o), i, LoadFrom(items, i + 1))

\* the list of the document: data["predictions"] of a dict that has it
PredictionItems(raw) ==
    IF raw.t = "obj" /\ "predictions" \in DOMAIN raw.o
    THEN raw.o["predictions"] ELSE raw

\* lines 184-201 on the items found
LoadItems(items) ==
    IF items.t # "list" THEN Raised("ValueError") ELSE LoadFrom(items.items, 0)

\* load_predictions_json for a file (exists, parsed content raw): the list
\* returned ([rows |-> ...]), or the exception raised
load_predictions_json(file) ==
    IF ~file.exists THEN Raised("FileNotFoundError")
    ELSE LoadItems(PredictionItems(file.raw))

-----------------------------------------------------------------------------
(* ranking.py.  Scores, confidences and top_pct are whole hundredths.  A   *)
(* table is its set of column names and its rows in index order.           *)

ScoreCol == "final_reliability_score"

\* an optional gate: None (disabled) or a minimum
NoGate == [none |-> TRUE]

Gate(v) == [min |-> v]

\* round(num / den) for num >= 0, den > 0: Python 3 rounds a half to the
\* even integer
PyRound(num, den) ==
    IF 2 * (num % den) < den THEN num \div den
    ELSE IF 2 * (num % den) > den THEN (num \div den) + 1
    ELSE IF (num \div den) % 2 = 0 THEN num \div den
    ELSE (num \div den) + 1

\* lines 34-35 and 37-38: a gate on a column applies if it is set and the
\* column exists
ColumnGate(tbl, row, column, gate) ==
    (gate # NoGate /\ column \in tbl.columns) => row[column] >= gate.min

\* lines 40-41
ScoreGate(row, gate) == gate # NoGate => row[ScoreCol] >= gate.min

\* lines 32-41: the mask, a boolean per row
SelectionMask(tbl, args) ==
    [i \in 1..Len(tbl.rows) |->
        /\ ColumnGate(tbl, tbl.rows[i], "user_confidence", args.min_user_conf)
        /\ ColumnGate(tbl, tbl.rows[i], "structural_reliability", args.min_structural)
        /\ ScoreGate(tbl.rows[i], args.min_score)]

\* out[mask]: the positions of the candidate rows
Candidates(tbl, args) ==
    { i \in 1..Len(tbl.rows) : SelectionMask(tbl, args)[i] }

\* the candidate with truncation in place of round()
NSelect_Truncated(k, top_pct) == Max(1, (k * top_pct) \div 100)

\* line 48: n_select = max(1, int(round(len(candidates) * float(top_pct))))
NSelect(k, top_pct) == Max(1, PyRound(k * top_pct, 100))

\* sort_values(score_col, ascending=False) on the rows at positions S: every
\* order with the scores not increasing (the default sort is not stable, so
\* rows of equal score come in any order)
RECURSIVE SortDescending(_, _)
SortDescending(tbl, S) ==
    IF S = {} THEN { <<>> }
    ELSE UNION { { <<i>> \o rest : rest \in SortDescending(tbl, S \ {i}) } :
                 i \in { j \in S : \A l \in S :
                            tbl.rows[l][ScoreCol] <= tbl.rows[j][ScoreCol] } }

\* candidates.head(n).index
HeadIndex(order, n) == { order[j] : j \in 1..Min(n, Len(order)) }

\* lines 26-30 and 43: the sorted candidates add_selection_flags may work
\* from; none for an empty table or a table without the score column
SortedCandidates(tbl, args) ==
    IF tbl.rows = <<>> \/ ScoreCol \notin tbl.columns THEN { <<>> }
    ELSE SortDescending(tbl, Candidates(tbl, args))

\* add_selection_flags given the order the sort produced: the 'selected'
\* column of the returned table
add_selection_flags(tbl, args, order) ==
    [selected |-> [i \in 1..Len(tbl.rows) |->
                      i \in HeadIndex(order, NSelect(Len(order), args.top_pct))]]

-----------------------------------------------------------------------------
(* The scorer and what it reads: market_data.py, technical_bias.py,        *)
(* fundamentals.py, scoring.py.                                            *)
(*                                                                         *)
(* A prediction is the dict these functions are given: asset and direction *)
(* as text, confidence in whole hundredths, entry_price and move_pct as    *)
(* floats (NoFloat when the key is absent), timestamp as a string.         *)
(*                                                                         *)
(* The world is what the providers answer: whether the exchange's          *)
(* get_klines and get_symbol_ticker calls work, how many hourly / daily /  *)
(* weekly bars lie at or before the prediction's timestamp, and what the   *)
(* indicator arithmetic over those bars comes to (bias, ret, fundamental,  *)
(* entry).  Sub-scores are whole hundredths; structural reliability is in  *)
(* 1e-4, the confidence reliability score in 1e-6, the final score in 1e-9.*)

NoClient == "None"

AClient == "Client"

\* the timestamps in use that datetime.fromisoformat accepts
IsoTimestamps == { "2026-01-23T08:00:00Z", "2026-01-23T09:00:00Z" }

Returned(v) == [value |-> v]

\* momentums=None
NoMomentums == [momentums_arg |-> "None"]

\* np.isfinite(x)
IsFinite(f) == f.k = "fin"

\* np.clip(x, lo, hi)
Clip(x, lo, hi) == IF x < lo THEN lo ELSE IF x > hi THEN hi ELSE x

AbsInt(x) == IF x < 0 THEN -x ELSE x

\* ---- market_data.py

\* _momentum(series, bars): 0.0 with fewer than bars + 1 closes, else the
\* return over the window (the world's ret, in hundredths)
Momentum(n_closes, bars, ret) == IF n_closes < bars + 1 THEN 0 ELSE ret

\* lines 188-196
MomentumTable(w) ==
    [ momentum_5h  |-> Momentum(w.bars.h, 5, w.ret),
      momentum_10h |-> Momentum(w.bars.h, 10, w.ret),
      momentum_20h |-> Momentum(w.bars.h, 20, w.ret),
      momentum_5d  |-> Momentum(w.bars.d, 5, w.ret),
      momentum_20d |-> Momentum(w.bars.d, 20, w.ret),
      momentum_40d |-> Momentum(w.bars.d, 40, w.ret),
      momentum_60d |-> Momentum(w.bars.d, 60, w.ret) ]

\* lines 198-206, in 1e-4
WeightedMomentum(m) ==
    30 * m.momentum_5h + 20 * m.momentum_10h + 10 * m.momentum_20h
    + 20 * m.momentum_5d + 10 * m.momentum_20d
    + 5 * m.momentum_40d + 5 * m.momentum_60d

\* line 208
MomentumResult(m) == Returned([momentums |-> m, weighted_momentum |-> WeightedMomentum(m)])

\* lines 152 and 177
NoMomentumData == Returned([momentums |-> <<>>, weighted_momentum |-> 0])

\* get_momentums after resolve_asset gave data
GetMomentumsFor(data, client, w) ==
    IF data = NoData THEN NoMomentumData
    ELSE IF data.type = "crypto"
    THEN IF client = NoClient THEN Raised("ValueError")
         ELSE IF w.klines = "fail" THEN Raised("BinanceAPIException")
         ELSE MomentumResult(MomentumTable(w))
    ELSE IF ~Truthy(data.yahoo) THEN NoMomentumData
    ELSE MomentumResult(MomentumTable(w))

\* get_momentums(user_input, binance_client=client)
get_momentums(reg, user_input, client, w) ==
    GetMomentumsFor(resolve_asset(reg, user_input).data, client, w)

\* lines 227-233 and 283-289
NoEntryInputs == Returned([n_closes |-> 0, spot_finite |-> FALSE, binance_symbol |-> FALSE])

\* get_entry_inputs after resolve_asset gave data: the hourly closes, whether
\* spot is finite, whether a binance_symbol is given
GetEntryInputsFor(data, client, w) ==
    IF data = NoData THEN NoEntryInputs
    ELSE IF data.type = "crypto"
    THEN IF client = NoClient THEN Raised("ValueError")
         ELSE IF w.klines = "fail" THEN Raised("BinanceAPIException")
         ELSE Returned([n_closes |-> w.bars.h,
                        spot_finite |-> w.ticker = "ok" \/ w.bars.h > 0,
                        binance_symbol |-> TRUE])
    ELSE IF ~Truthy(data.yahoo) THEN NoEntryInputs
    ELSE Returned([n_closes |-> w.bars.h, spot_finite |-> w.bars.d > 0,
                   binance_symbol |-> FALSE])

\* get_entry_inputs(user_input, binance_client=client)
get_entry_inputs(reg, user_input, client, w) ==
    GetEntryInputsFor(resolve_asset(reg, user_input).data, client, w)

\* ---- technical_bias.py

\* _to_utc_datetime(ts) raises ValueError unless ts is empty or ISO 8601
TimestampParses(ts) == ts = "" \/ ts \in IsoTimestamps

\* _compute_trend_bias: 0.0 below 80 bars
EnoughBars(n) == n >= 80

\* lines 363-379: with fewer than 80 bars in every series each trend bias is
\* 0.0 and so is the result; otherwise the indicators decide (the world's bias)
FinalBias(w) ==
    IF EnoughBars(w.bars.h) \/ EnoughBars(w.bars.d) \/ EnoughBars(w.bars.w)
    THEN w.bias ELSE 0

TechResult(bias, reason) == Returned([technical_bias |-> bias, reason |-> reason])

\* lines 352-420 on the bars fetched
BiasFromBars(w) ==
    IF w.bars.h = 0 /\ w.bars.d = 0 /\ w.bars.w = 0
    THEN TechResult(0, "no_market_data")
    ELSE TechResult(FinalBias(w), "")

\* get_technical_bias after resolve_asset gave data
GetTechnicalBiasFor(data, ts, client, w) ==
    IF data = NoData THEN TechResult(0, "unresolved_asset")
    ELSE IF ~TimestampParses(ts) THEN Raised("ValueError")
    ELSE IF data.type = "crypto"
    THEN IF client = NoClient THEN TechResult(0, "missing_binance_client")
         ELSE IF w.klines = "fail" THEN Raised("BinanceAPIException")
         ELSE BiasFromBars(w)
    ELSE IF ~Truthy(data.yahoo) THEN TechResult(0, "missing_yahoo_symbol")
    ELSE BiasFromBars(w)

\* get_technical_bias(user_input, binance_client=client)
get_technical_bias(reg, user_input, client, w) ==
    GetTechnicalBiasFor(resolve_asset(reg, user_input).data,
                        user_input.timestamp, client, w)

\* ---- fundamentals.py

\* get_fundamental_score: 0.5 for an unresolved asset, else what the
\* sentiment and macro sources come to (every fetch recovers to a default)
FundamentalFor(data, w) == IF data = NoData THEN 50 ELSE w.fundamental

get_fundamental_score(reg, user_input, w) ==
    FundamentalFor(resolve_asset(reg, user_input).data, w)

\* ---- scoring.py

\* _normalize_direction
Scoring_normalize_direction(direction) ==
    IF Upper(Strip(direction)) \in {<<"B","U","Y">>, <<"L","O","N","G">>} THEN "long"
    ELSE IF Upper(Strip(direction)) \in {<<"S","E","L","L">>, <<"S","H","O","R","T">>}
    THEN "short"
    ELSE "long"

\* 1 - exp(-x) to the nearest fiftieth, for x = 0.0, 0.1, ... 3.0
StrengthTable ==
    << 0, 10, 18, 26, 32, 40, 46, 50, 56, 60, 64, 66, 70, 72, 76, 78, 80, 82,
       84, 86, 86, 88, 88, 90, 90, 92, 92, 94, 94, 94, 96 >>

\* line 70: strength = 1 - exp(-abs(wm) * 20), wm in 1e-4
Strength(wm) == StrengthTable[Min(AbsInt(wm) \div 50, 30) + 1]

\* _momentum_alignment
momentum_alignment(direction, wm) ==
    IF wm = 0 THEN 50
    ELSE IF (direction = "long" /\ wm > 0) \/ (direction = "short" /\ wm < 0)
    THEN 50 + Strength(wm) \div 2
    ELSE 50 - Strength(wm) \div 2

\* _technical_alignment
technical_alignment(direction, technical_bias) ==
    IF direction = "long"
    THEN Clip(50 + Clip(technical_bias, -100, 100) \div 2, 0, 100)
    ELSE Clip(50 - Clip(technical_bias, -100, 100) \div 2, 0, 100)

\* line 86 and 111: momentums = momentums or {}; .get("weighted_momentum", 0.0)
ArgWeightedMomentum(momentums) ==
    IF momentums = NoMomentums THEN 0 ELSE momentums.weighted_momentum

\* lines 114-116: abs of momentum_5h / momentum_10h, 0.0 when absent
ArgMomentum(momentums, k) ==
    IF momentums = NoMomentums THEN 0
    ELSE IF k \in DOMAIN momentums.momentums THEN AbsInt(momentums.momentums[k])
    ELSE 0

\* line 117
hourly_time_consistency(momentums) ==
    Clip((60 * ArgMomentum(momentums, "momentum_5h")
          + 40 * ArgMomentum(momentums, "momentum_10h")) \div 100, 0, 100)

\* lines 122-128, in 1e-4
structural_reliability(ma, ta, fs, htc) ==
    Clip(45 * ma + 35 * ta + 15 * fs + 5 * htc, 0, 10000)

\* line 131, in 1e-6
confidence_reliability_score(user_confidence, structural) ==
    Clip(user_confidence * structural, 0, 1000000)

\* lines 154-161: the entry layer runs
EntryLayerRuns(ctx, entry_price) ==
    /\ ctx.n_closes > 50 /\ ctx.spot_finite
    /\ IsFinite(entry_price)

\* lines 141 and 161-202: 0.5 unless the layer runs, then what the entry
\* quality functions come to
entry_score(ctx, entry_price, w) ==
    IF EntryLayerRuns(ctx, entry_price) THEN w.entry ELSE 50

\* line 205, in 1e-9
final_reliability_score(crs, entry) == Clip(crs * (700 + 3 * entry), 0, 1000000000)

\* lines 208-213
ReliabilityLabel(final) ==
    IF final < 400000000 THEN "low"
    ELSE IF final < 700000000 THEN "moderate"
    ELSE "high"

\* lines 215-257
RowWithCrs(pred, bias, ta, fs, wm, ma, htc, structural, crs, entry) ==
    [ asset |-> pred.asset,
      user_confidence |-> pred.confidence,
      technical_bias |-> bias,
      technical_alignment |-> ta,
      fundamental_score |-> fs,
      weighted_momentum |-> wm,
      momentum_alignment |-> ma,
      hourly_time_consistency |-> htc,
      structural_reliability |-> structural,
      confidence_reliability_score |-> crs,
      entry_score |-> entry,
      final_reliability_score |-> final_reliability_score(crs, entry),
      reliability |-> ReliabilityLabel(final_reliability_score(crs, entry)) ]

RowWithStructural(pred, bias, ta, fs, wm, ma, htc, structural, entry) ==
    RowWithCrs(pred, bias, ta, fs, wm, ma, htc, structural,
               confidence_reliability_score(pred.confidence, structural), entry)

RowWithAlignments(pred, bias, ta, fs, wm, ma, htc, entry) ==
    RowWithStructural(pred, bias, ta, fs, wm, ma, htc,
               structural_reliability(ma, ta, fs, htc), entry)

RowWithInputs(pred, direction, bias, fs, wm, htc, entry) ==
    RowWithAlignments(pred, bias, technical_alignment(direction, bias), fs, wm,
               momentum_alignment(direction, wm), htc, entry)

\* score_prediction once get_technical_bias and get_entry_inputs have
\* answered: an exception of either ends the call
ScoreWith(pred, momentums, tech, fs, ctx, w) ==
    IF IsRaised(tech) THEN tech
    ELSE IF IsRaised(ctx) THEN ctx
    ELSE Returned(RowWithInputs(pred, Scoring_normalize_direction(pred.direction),
                             tech.value.technical_bias, Clip(fs, 0, 100),
                             ArgWeightedMomentum(momentums),
                             hourly_time_consistency(momentums),
                             entry_score(ctx.value, pred.entry_price, w)))

\* score_prediction(pred, binance_client=client, momentums=momentums)
score_prediction(reg, pred, client, momentums, w) ==
    ScoreWith(pred, momentums,
              get_technical_bias(reg, pred, client, w),
              get_fundamental_score(reg, pred, w),
              get_entry_inputs(reg, pred, client, w), w)

\* ---- main.py

\* lines 118-120: a client only if both credentials are set
ClientFromEnv(env) == IF env.key /\ env.secret THEN AClient ELSE NoClient

\* lines 96-98: _is_crypto_asset
is_crypto_asset(asset) ==
    \/ Upper(Strip(asset)) \in {sBTC, sETH, sSOL}
    \/ EndsWith(Upper(Strip(asset)), sUSDT)

\* line 27
CRYPTO_ONLY == FALSE

\* lines 156-157: the predictions the run scores
Survivors(preds) ==
    IF CRYPTO_ONLY THEN SelectSeq(preds, LAMBDA p : is_crypto_asset(p.asset))
    ELSE preds

\* lines 169-170 for one prediction: the scored row, or the exception
ScoreOne(reg, pred, client, momentums, w) ==
    IF IsRaised(momentums) THEN momentums
    ELSE score_prediction(reg, pred, client, momentums.value, w)

\* the table of lines 173-192 in the units of the gates
BatchRow(row) ==
    [ user_confidence |-> row.user_confidence,
      structural_reliability |-> row.structural_reliability,
      final_reliability_score |-> row.final_reliability_score ]

BatchTable(rows) ==
    [columns |-> {"user_confidence", "structural_reliability", ScoreCol},
     rows |-> [i \in 1..Len(rows) |-> BatchRow(rows[i])]]

\* lines 185-192: TOP_PCT, MIN_SCORE, MIN_USER_CONFIDENCE, MIN_STRUCTURAL
MainArgs ==
    [top_pct |-> 30, min_score |-> NoGate, min_user_conf |-> Gate(70),
     min_structural |-> Gate(5500)]

\* the table with its rows in reverse order
FullTableReversed(rows, flags) ==
    [i \in 1..Len(rows) |->
        [asset |-> rows[Len(rows) + 1 - i].asset,
         user_confidence |-> rows[Len(rows) + 1 - i].user_confidence,
         final_reliability_score |-> rows[Len(rows) + 1 - i].final_reliability_score,
         selected |-> flags.selected[Len(rows) + 1 - i]]]

\* lines 173-192: the table 'full', the scored rows in the order of the
\* list with the 'selected' column add_selection_flags gave them
FullTable(rows, flags) ==
    [i \in 1..Len(rows) |->
        [asset |-> rows[i].asset,
         user_confidence |-> rows[i].user_confidence,
         final_reliability_score |-> rows[i].final_reliability_score,
         selected |-> flags.selected[i]]]

\* ranking.py get_selected: df[df["selected"] == True]
get_selected(full) == SelectSeq(full, LAMBDA r : r.selected)

\* to_boss_json_records: one record per row of the table, in its order
to_boss_json_records(full) ==
    [i \in 1..Len(full) |->
        [asset |-> full[i].asset,
         scored_confidence |-> full[i].final_reliability_score]]

\* the files of the outputs directory: the rows a file holds, or no file
OutputFiles ==
    {"full_ranked.csv", "full_ranked.json", "selected.csv", "selected.json",
     "boss_format.json"}

NoOutput == [absent |-> TRUE]

OutFile(rows) == [rows |-> rows]

EmptyOutputs == [f \in OutputFiles |-> NoOutput]

\* lines 199-228: full_ranked.* and boss_format.json are always written,
\* selected.* only for a non-empty selection; nothing is ever removed
Exported(dir, full) ==
    [f \in OutputFiles |->
        CASE f \in {"full_ranked.csv", "full_ranked.json"} -> OutFile(full)
          [] f \in {"selected.csv", "selected.json"} ->
                IF get_selected(full) # <<>> THEN OutFile(get_selected(full))
                ELSE dir[f]
          [] OTHER -> OutFile(to_boss_json_records(full))]

\* ---- consumers/L1

\* lines 4-13
MissingField(data) ==
    \E f \in {"symbol", "timestamp_utc_micros", "best_bid_price",
              "best_ask_price"} : f \notin DOMAIN data

\* a JSON integer (the message timestamp, microseconds since the epoch)
JInt(n) == [t |-> "int", n |-> n]

\* 300 seconds, in microseconds
StaleMicros == 300 * Micro

\* a >= b on floats: nan compares false with everything
Geq(a, b) ==
    CASE a.k = "nan" \/ b.k = "nan" -> FALSE
      [] a.k = "fin" /\ b.k = "fin" -> a.v >= b.v
      [] a.k = "inf" -> a.sign = 1 \/ b = a
      [] OTHER -> b.sign = -1

\* lines 18-19: bid <= 0 or ask <= 0 or bid >= ask
BookRejected(bid, ask) == Less(bid, 1) \/ Less(ask, 1) \/ Geq(bid, ask)

\* lines 21-24: abs(now - msg_time) <= 300 for a numeric timestamp; dividing
\* anything else by 1_000_000 raises TypeError
FreshEnough(ts, now) ==
    IF ts.t = "int" THEN Returned(AbsInt(now - ts.n) <= StaleMicros)
    ELSE IF ts.t = "num" /\ ts.f.k # "fin" THEN Returned(FALSE)
    ELSE Raised("TypeError")

\* lines 15-24: float() of a price that is no number raises
ValidateFields(bid, ask, ts, now) ==
    IF bid = FloatError \/ ask = FloatError THEN Raised("ValueError")
    ELSE IF BookRejected(bid, ask) THEN Returned(FALSE)
    ELSE FreshEnough(ts, now)

\* validate_l1(data) at wall-clock time now (microseconds)
validate_l1(data, now) ==
    IF MissingField(data) THEN Returned(FALSE)
    ELSE ValidateFields(ToFloat(data["best_bid_price"]), ToFloat(data["best_ask_price"]),
                        data["timestamp_utc_micros"], now)

\* processor.py line 5: (bid + ask) / 2
MidPrice(bid, ask) ==
    CASE bid.k = "fin" /\ ask.k = "fin" -> Fin((bid.v + ask.v) \div 2)
      [] bid.k = "nan" \/ ask.k = "nan" -> NaN
      [] bid.k = "inf" /\ ask.k = "inf" /\ bid # ask -> NaN
      [] bid.k = "inf" -> bid
      [] OTHER -> ask

\* compute_l1_metrics(data) for a message validate_l1 let through: the
\* symbol, the exchange and the mid price, or KeyError
compute_l1_metrics(data) ==
    IF "exchange" \notin DOMAIN data THEN Raised("KeyError")
    ELSE Returned([symbol |-> data["symbol"], exchange |-> data["exchange"],
                   mid_price |-> MidPrice(ToFloat(data["best_bid_price"]),
                                          ToFloat(data["best_ask_price"]))])

\* ---- consumers/L2

\* price, qty = level: the two items of a two-item list, the two characters
\* of a two-character string; anything else does not unpack
NoPair == <<>>

LevelPair(level) ==
    IF level.t = "list" /\ Len(level.items) = 2
    THEN <<level.items[1], level.items[2]>>
    ELSE IF level.t = "str" /\ Len(level.s) = 2
    THEN <<JStr(<<level.s[1]>>), JStr(<<level.s[2]>>)>>
    ELSE NoPair

\* validation.py lines 32-37 for one unpacked level
PairValid(pair) ==
    pair # NoPair /\ Greater(ToFloat(pair[1]), 0) /\ Greater(ToFloat(pair[2]), 0)

\* the items a for loop over bids / asks visits: the items of a list, the
\* characters of a string
LevelsOf(levels) ==
    IF levels.t = "list" THEN levels.items
    ELSE [i \in 1..Len(levels.s) |-> JStr(<<levels.s[i]>>)]

\* valid_levels(levels): at least one level unpacks into a positive price and
\* a positive quantity; iterating a value that is no list or string raises
valid_levels(levels) ==
    IF levels.t \notin {"list", "str"} THEN Raised("TypeError")
    ELSE Returned(\E i \in 1..Len(LevelsOf(levels)) :
                      PairValid(LevelPair(LevelsOf(levels)[i])))

\* validation.py lines 22-26: TRUE when the message is too old or too new;
\* dividing a timestamp that is no number raises
L2Stale(ts, now) ==
    IF ts.t = "int" THEN Returned(AbsInt(now - ts.n) > StaleMicros)
    ELSE IF ts.t = "num" /\ ts.f.k = "nan" THEN Returned(FALSE)
    ELSE IF ts.t = "num" /\ ts.f.k = "inf" THEN Returned(TRUE)
    ELSE Raised("TypeError")

\* lines 40-46 given what valid_levels answered for the bids
L2BothSides(bidsOk, asks) ==
    IF IsRaised(bidsOk) THEN bidsOk
    ELSE IF ~bidsOk.value THEN Returned(FALSE)
    ELSE valid_levels(asks)

\* lines 22-46 given the staleness test's answer
L2AfterAge(stale, data) ==
    IF IsRaised(stale) THEN stale
    ELSE IF stale.value THEN Returned(FALSE)
    ELSE L2BothSides(valid_levels(data["bids"]), data["asks"])

\* validate_l2(data) at wall-clock time now (microseconds)
validate_l2(data, now) ==
    IF \E f \in {"symbol", "timestamp_utc_micros", "bids", "asks", "exchange"} :
           f \notin DOMAIN data
    THEN Returned(FALSE)
    ELSE L2AfterAge(L2Stale(data["timestamp_utc_micros"], now), data)

\* a float in whole thousandths (the prices and quantities in use are whole
\* thousandths, so products and limits are exact)
Milli(f) == f.v \div 1000

\* processor.py lines 11-12: float(levels[0][0])
FirstPrice(levels) ==
    IF levels.items[1].t = "list" /\ Len(levels.items[1].items) >= 1
    THEN ToFloat(levels.items[1].items[1])
    ELSE IF levels.items[1].t = "str" /\ Len(levels.items[1].s) >= 1
    THEN ToFloat(JStr(<<levels.items[1].s[1]>>))
    ELSE FloatError

\* lines 21-23 and 28-30 succeed for a level: it unpacks and both items are
\* finite floats
LevelReads(level) ==
    /\ LevelPair(level) # NoPair
    /\ IsFinite(ToFloat(LevelPair(level)[1]))
    /\ IsFinite(ToFloat(LevelPair(level)[2]))

\* price * qty of a level, in millionths
Notional(level) ==
    Milli(ToFloat(LevelPair(level)[1])) * Milli(ToFloat(LevelPair(level)[2]))

\* line 24 (side = 1): price >= best * (1 - pct); line 31 (side = -1):
\* price <= best * (1 + pct); pct in whole hundredths
WithinLimit(level, best, pct, side) ==
    IF side = 1
    THEN Milli(ToFloat(LevelPair(level)[1])) * 100 >= Milli(best) * (100 - pct)
    ELSE Milli(ToFloat(LevelPair(level)[1])) * 100 <= Milli(best) * (100 + pct)

\* lines 17-32: the sum over the levels from position i on
RECURSIVE DepthFrom(_, _, _, _, _)
DepthFrom(levels, i, best, pct, side) ==
    IF i > Len(levels) THEN 0
    ELSE (IF WithinLimit(levels[i], best, pct, side) THEN Notional(levels[i]) ELSE 0)
         + DepthFrom(levels, i + 1, best, pct, side)

\* lines 34-41
DepthResult(bid_depth, ask_depth) ==
    Returned([bid_depth_usd |-> Fin(bid_depth), ask_depth_usd |-> Fin(ask_depth),
              total_depth_usd |-> Fin(bid_depth + ask_depth)])

\* compute_depth_l2 once the first prices are read
DepthWithBest(bids, asks, best_bid, best_ask, pct) ==
    IF ~IsFinite(best_bid) \/ ~IsFinite(best_ask) THEN Raised("ValueError")
    ELSE IF \E i \in 1..Len(bids) : ~LevelReads(bids[i]) THEN Raised("ValueError")
    ELSE IF \E i \in 1..Len(asks) : ~LevelReads(asks[i]) THEN Raised("ValueError")
    ELSE DepthResult(DepthFrom(bids, 1, best_bid, pct, 1),
                     DepthFrom(asks, 1, best_ask, pct, -1))

\* compute_depth_l2(data, pct) for a message validate_l2 let through (bids
\* and asks are non-empty lists then)
compute_depth_l2(data, pct) ==
    DepthWithBest(data["bids"].items, data["asks"].items,
                  FirstPrice(data["bids"]), FirstPrice(data["asks"]), pct)

-----------------------------------------------------------------------------
(* llm_sentiment/sentiment/core/composite_scorer.py.  Scores and weights   *)
(* are whole twentieths (0.05), so the regime thresholds +-0.20 are +-4; a  *)
(* source's signal count divides CountLcm, so that every average is a whole *)
(* number of 1/CountLcm twentieths and sums of them are exact.  Results are *)
(* in 1e-4, the unit round(x, 4) rounds to.                                *)

CountLcm == 12

\* the positions of a symbol's signals from one source (grouped[symbol][source])
SignalIndexes(signals, symbol, source) ==
    { i \in 1..Len(signals) :
        signals[i].symbol = symbol /\ signals[i].source = source }

\* the keys of grouped and of grouped[symbol]
SymbolsOf(signals) == { signals[i].symbol : i \in 1..Len(signals) }

SourcesOf(signals, symbol) ==
    { signals[i].source : i \in { j \in 1..Len(signals) : signals[j].symbol = symbol } }

\* sum(scores) over the positions I
RECURSIVE SumScores(_, _)
SumScores(signals, I) ==
    IF I = {} THEN 0
    ELSE signals[CHOOSE i \in I : TRUE].score
         + SumScores(signals, I \ {CHOOSE i \in I : TRUE})

\* the confidence of a source without the cap at 1.0
SourceConfidence_Uncapped(n) == n

\* line 81: confidence = min(len(scores) / 10.0, 1.0), in tenths

SourceConfidence(n) == Min(n, 10)

\* line 83 for one source: avg * weight * confidence, in 1/(10 * CountLcm)
\* of a 1/400
WeightedTerm(w, sum, n) == w * sum * (CountLcm \div n) * SourceConfidence(n)

\* line 84 for one source: weight * confidence, in tenths of a twentieth
ConfidenceTerm(w, n) == w * SourceConfidence(n)

\* lines 73-84: weighted_sum over the sources S of a symbol that have a weight
RECURSIVE WeightedSum(_, _, _, _)
WeightedSum(weights, signals, symbol, S) ==
    IF S = {} THEN 0
    ELSE WeightedTerm(weights[CHOOSE s \in S : TRUE],
                      SumScores(signals, SignalIndexes(signals, symbol, CHOOSE s \in S : TRUE)),
                      Cardinality(SignalIndexes(signals, symbol, CHOOSE s \in S : TRUE)))
         + WeightedSum(weights, signals, symbol, S \ {CHOOSE s \in S : TRUE})

\* lines 73-84: confidence_sum
RECURSIVE ConfidenceSum(_, _, _, _)
ConfidenceSum(weights, signals, symbol, S) ==
    IF S = {} THEN 0
    ELSE ConfidenceTerm(weights[CHOOSE s \in S : TRUE],
                        Cardinality(SignalIndexes(signals, symbol, CHOOSE s \in S : TRUE)))
         + ConfidenceSum(weights, signals, symbol, S \ {CHOOSE s \in S : TRUE})

\* line 71: total_weight
RECURSIVE TotalWeight(_, _)
TotalWeight(weights, S) ==
    IF S = {} THEN 0
    ELSE weights[CHOOSE s \in S : TRUE] + TotalWeight(weights, S \ {CHOOSE s \in S : TRUE})

\* round(num / den) for den > 0 and num of either sign (half to even)
RoundSigned(num, den) ==
    IF num >= 0 THEN PyRound(num, den) ELSE -PyRound(-num, den)

\* lines 95-96 and 114: round(clip(weighted_sum / confidence_sum), 4); a
\* twentieth is 500 * 1e-4
SentimentScore(weighted_sum, confidence_sum) ==
    Clip(RoundSigned(weighted_sum * 500, confidence_sum * CountLcm), -10000, 10000)

\* lines 98-99 and 115: round(clip(confidence_sum / total_weight), 4)
CompositeConfidence(confidence_sum, total_weight) ==
    Clip(RoundSigned(confidence_sum * 1000, total_weight), 0, 10000)

\* the regime with the thresholds themselves counted as risk_on / risk_off
Regime_Inclusive(sum, n) ==
    IF n = 0 THEN "unknown"
    ELSE IF sum >= 4 * n THEN "risk_on"
    ELSE IF sum <= -4 * n THEN "risk_off"
    ELSE "neutral"

\* lines 102-111: the regime from the volatility scores (sum over n of them)
Regime(sum, n) ==
    IF n = 0 THEN "unknown"
    ELSE IF sum > 4 * n THEN "risk_on"
    ELSE IF sum < -4 * n THEN "risk_off"
    ELSE "neutral"

\* lines 86-117 for one symbol, given its sums
SymbolResult(weighted_sum, confidence_sum, total_weight, vol_sum, vol_n) ==
    IF confidence_sum = 0
    THEN [sentiment_score |-> 0, confidence |-> 0, regime |-> "unknown"]
    ELSE [sentiment_score |-> SentimentScore(weighted_sum, confidence_sum),
          confidence |-> CompositeConfidence(confidence_sum, total_weight),
          regime |-> Regime(vol_sum, vol_n)]

\* lines 68-117 for one symbol
ScoreSymbol(weights, signals, symbol, S) ==
    SymbolResult(WeightedSum(weights, signals, symbol, S),
                 ConfidenceSum(weights, signals, symbol, S),
                 TotalWeight(weights, DOMAIN weights),
                 SumScores(signals, SignalIndexes(signals, symbol, "volatility")),
                 Cardinality(SignalIndexes(signals, symbol, "volatility")))

\* CompositeScorer.score(signals) with self.weights = weights
CompositeScorer_score(weights, signals) ==
    [symbol \in SymbolsOf(signals) |->
        ScoreSymbol(weights, signals, symbol,
                    SourcesOf(signals, symbol) \cap DOMAIN weights)]

-----------------------------------------------------------------------------
(* Each component before it has run.  A specification starts one component *)
(* on its inputs and leaves the others as they are here.                   *)

NoResult == [key |-> None, data |-> NoData]

ResolveIdle ==
    /\ registry = ASSET_REGISTRY
    /\ resolveIn = <<>>
    /\ resolveOut = NoResult

NotLoaded == [pending |-> TRUE]

NoFile == [exists |-> FALSE, raw |-> JNull]

LoaderIdle ==
    /\ predFile = NoFile
    /\ loaded = NotLoaded

NotRanked == [unranked |-> TRUE]

NoTable == [columns |-> {}, rows |-> <<>>]

DefaultArgs ==
    [top_pct |-> 30, min_score |-> NoGate, min_user_conf |-> Gate(70),
     min_structural |-> Gate(55)]

RankIdle ==
    /\ rankTable = NoTable
    /\ rankArgs = DefaultArgs
    /\ ranked = NotRanked

NoWorld ==
    [klines |-> "ok", ticker |-> "ok", bars |-> [h |-> 0, d |-> 0, w |-> 0],
     bias |-> 0, fundamental |-> 50, ret |-> 0, entry |-> 50]

WorldIdle ==
    /\ world = NoWorld
    /\ binance_client = NoClient

NoPrediction ==
    [asset |-> <<>>, direction |-> <<>>, confidence |-> 50, entry_price |-> NoFloat,
     move_pct |-> NoFloat, horizon_hours |-> 1, timestamp |-> ""]

NotAsked == [unasked |-> TRUE]

NotScored == [unscored |-> TRUE]

ScoreIdle ==
    /\ predIn = NoPrediction
    /\ momentumsOut = NoMomentums
    /\ techOut = NotAsked
    /\ scored = NotScored

BatchIdle ==
    /\ environ = [key |-> FALSE, secret |-> FALSE]
    /\ batchPreds = <<>>
    /\ batchState = "idle"
    /\ scored_rows = <<>>
    /\ batchSelected = NotRanked
    /\ outputs = EmptyOutputs
    /\ runsLeft = 0

NotValidated == [unvalidated |-> TRUE]

NoMetrics == [nometrics |-> TRUE]

L1Idle ==
    /\ l1Msg = <<>>
    /\ l1Now = 0
    /\ l1Valid = NotValidated
    /\ l1Metrics = NoMetrics

L2Idle ==
    /\ l2Msg = <<>>
    /\ l2Pct = 1
    /\ l2Now = 0
    /\ l2Valid = NotValidated
    /\ l2Depth = NoMetrics

NotScoredYet == [unscored_signals |-> TRUE]

CompositeIdle ==
    /\ csWeights = <<>>
    /\ csSignals = <<>>
    /\ csResult = NotScoredYet

\* a request without the X-API-Key header; one with it is <<value>>
NoHeader == <<>>

NoDisk == [no_disk |-> TRUE]

NotAnswered == [unanswered |-> TRUE]

ApiIdle ==
    /\ apiFiles = NoDisk
    /\ apiHeader = NoHeader
    /\ apiAsset = <<>>
    /\ apiResponse = NotAnswered
    /\ apiOrchestrated = 0
    /\ apiRequests = 0

NotDerived == [underived |-> TRUE]

HistoryIdle ==
    /\ mkPath = <<>>
    /\ mkT = 0
    /\ mkNow = 0
    /\ mkTicker = "ok"
    /\ mkInputs = NotDerived

NoEntryScore == [no_entry_score |-> TRUE]

EntryIdle ==
    /\ etIn = <<>>
    /\ etOut = NoEntryScore

StillRunning == [running |-> TRUE]

ConsumerIdle ==
    /\ conKind = "L1"
    /\ conPc = "idle"
    /\ conData = <<>>
    /\ conPolls = 0
    /\ conPrinted = 0
    /\ conClosed = 0
    /\ conExit = StillRunning

NotCollected == [not_collected |-> TRUE]

DefaultAssets == [given |-> FALSE]

OrchIdle ==
    /\ orchAssets = DefaultAssets
    /\ orchDisk = NoDisk
    /\ orchPc = "idle"
    /\ orchSignals = NotCollected

ScraperIdle ==
    /\ scrInstalled = {}
    /\ scrPc = "idle"
    /\ scrCalls = <<>>
    /\ scrFailed = {}

NoCall == [no_call |-> TRUE]

CacheIdle ==
    /\ cacheStore = <<>>
    /\ cacheRequests = 0
    /\ cacheSeen = <<>>
    /\ cacheCall = NoCall

NoSides == [no_sides |-> TRUE]

SideIdle ==
    /\ sideIn = NoSides
    /\ sideOut = NoSides

NothingSaved == [nothing_saved |-> TRUE]

NotLoadedYet == [not_loaded |-> TRUE]

StoreIdle ==
    /\ stDisk = NoDisk
    /\ stSaved = NothingSaved
    /\ stLoaded = NotLoadedYet
    /\ stSaves = 0

NoScores == [no_scores |-> TRUE]

RelIdle ==
    /\ relIn = NoScores
    /\ relOut = NoScores

NoRisk == [no_risk |-> TRUE]

RiskIdle ==
    /\ riskIn = NoRisk
    /\ riskOut = NoRisk

-----------------------------------------------------------------------------
(* The loader's inputs: documents of up to MaxItems items drawn from rows  *)
(* that are well formed, lack a field, are no object, or carry a value of   *)
(* another JSON type; and one-row documents that vary direction,           *)
(* horizon_hours, and confidence together with move_pct.                   *)

MaxItems == 3

T(s) == JStr(s)

N(v) == JNum(Fin(v))

sU1 == <<"u","1">>

GoodRow ==
    JObj([user_id |-> T(sU1), submission_id |-> T(<<"s","1">>),
          timestamp |-> T(<<"2","0","2","6">>), asset |-> T(sBTC),
          direction |-> T(<<"B","U","Y">>), confidence |-> N(720000),
          horizon_hours |-> N(4 * Micro), entry_price |-> N(100 * Micro),
          move_pct |-> N(4000)])

ListRows ==
    { GoodRow,
      JObj([user_id |-> T(sU1), asset |-> T(<<"e","t","h">>)]),
      JObj([user_id |-> T(<<"u","2">>), direction |-> T(<<"S","E","L","L">>)]),
      JObj([asset |-> T(sSOL)]),
      N(5 * Micro),
      JObj([uid |-> T(<<"u","3">>), asset |-> T(<<" ","e","u","r","u","s","d","=","x">>),
            id |-> T(<<"x","9">>)]),
      JObj([user_id |-> T(sU1), asset |-> T(<<" ">>)]),
      JObj([user_id |-> T(<<>>), user |-> N(7 * Micro), asset |-> T(<<"b","t","c","u","s","d","t">>),
            submission_id |-> T(<<>>)]),
      JObj([user_id |-> T(sU1), asset |-> T(sBTC), direction |-> N(Micro)]),
      JObj([user_id |-> T(sU1), asset |-> N(7 * Micro)]) }

Absent == [t |-> "absent"]

DirectionValues ==
    { Absent, JNull, T(<<>>), T(<<"B","U","Y">>), T(<<"l","o","n","g">>),
      T(<<" ","S","e","l","l"," ">>), T(<<"S","H","O","R","T">>),
      T(<<"h","o","l","d">>) }

ConfidenceValues ==
    { Absent, JNull, N(720000), N(1500000), N(-200000), N(0), N(Micro),
      T(<<"0",".","9">>), T(<<"a","b","c">>), JList(<<>>), JBool(TRUE),
      JNum(NaN), T(<<"n","a","n">>), JNum(Inf(1)), JNum(Inf(-1)) }

HorizonValues ==
    { Absent, JNull, N(4 * Micro), N(30 * Micro), N(0), N(-3 * Micro),
      N(4700000), N(24 * Micro), T(<<"7">>), T(<<"x">>), JNum(NaN), JNum(Inf(1)) }

MovePctValues ==
    { Absent, JNull, N(4000), N(150000), N(200000), N(210000), N(400000),
      N(Micro), N(2 * Micro), N(40 * Micro), N(-400000), N(-4000),
      T(<<"0",".","4","%">>), T(<<"4","0","%">>), T(<<"2","0","%">>),
      T(<<"2","1","%">>), T(<<"-","4","0","%">>), T(<<"1","0","0","%">>),
      T(<<" ","5","%"," ">>), T(<<"a","b","c","%">>), T(<<"0",".","0","0","4">>),
      T(<<"0",".","5">>), JNum(NaN), T(<<"n","a","n">>) }

WithField(o, k, v) == IF v = Absent THEN o ELSE (k :> v) @@ o

FieldRow(d, c, h, m) ==
    JObj(WithField(WithField(WithField(WithField(
            [user_id |-> T(sU1), asset |-> T(sBTC)],
            "direction", d), "confidence", c), "horizon_hours", h), "move_pct", m))

\* rows that vary one field at a time, and confidence together with move_pct
FieldRows ==
    { FieldRow(d, Absent, Absent, Absent) : d \in DirectionValues }
    \cup { FieldRow(Absent, Absent, h, Absent) : h \in HorizonValues }
    \cup { FieldRow(T(<<"S","E","L","L">>), c, N(4 * Micro), m) :
                c \in ConfidenceValues, m \in MovePctValues }

ListDocuments ==
    UNION { { JList(items) : items \in [1..n -> ListRows] } : n \in 0..MaxItems }

PredictionFiles ==
    { [exists |-> TRUE, raw |-> d] : d \in ListDocuments }
    \cup { [exists |-> TRUE, raw |-> JList(<<r>>)] : r \in FieldRows }
    \cup { [exists |-> TRUE, raw |-> JObj([predictions |-> JList(<<GoodRow, N(0)>>)])],
           [exists |-> TRUE, raw |-> JObj([predictions |-> T(<<"x">>)])],
           [exists |-> TRUE, raw |-> JObj([rows |-> JList(<<GoodRow>>)])],
           [exists |-> TRUE, raw |-> T(<<"x">>)],
           [exists |-> FALSE, raw |-> JNull] }

LoaderInit ==
    /\ predFile \in PredictionFiles
    /\ loaded = NotLoaded

\* one call of load_predictions_json(predFile)
LoadPredictions ==
    /\ loaded = NotLoaded
    /\ loaded' = load_predictions_json(predFile)
    /\ UNCHANGED <<predFile, exceptLoader>>

InitLoader ==
    LoaderInit /\ ResolveIdle /\ RankIdle /\ WorldIdle /\ ScoreIdle /\
    BatchIdle /\ L1Idle /\ L2Idle /\ CompositeIdle /\ ApiIdle /\
    HistoryIdle /\ EntryIdle /\ ConsumerIdle /\ OrchIdle /\ ScraperIdle /\
    CacheIdle /\ SideIdle /\ StoreIdle /\ RelIdle /\ RiskIdle

NextLoader == LoadPredictions

SpecLoader == InitLoader /\ [][NextLoader]_vars

-----------------------------------------------------------------------------
(* The resolver's inputs: every supported spelling of every crypto asset in *)
(* every letter case and with surrounding whitespace, every text over a    *)
(* small alphabet up to MaxKeyLen characters, the catalogue's other         *)
(* spellings, and inputs that use the symbol / ticker fallbacks.           *)

MaxPad == 1
MaxKeyLen == 6

CryptoKeys == {sBTC, sETH, sSOL}

CryptoSpellings(X) ==
    { X, X \o sUSDT, X \o <<"-","U","S","D">>, X \o <<"/">> \o sUSDT }

CaseVariants(s) ==
    { [i \in 1..Len(s) |-> IF m[i] THEN LowerChar(s[i]) ELSE s[i]] :
        m \in [1..Len(s) -> BOOLEAN] }

Pads == UNION { [1..n -> {" ", "\t"}] : n \in 0..MaxPad }

Padded(s) == { l \o s \o r : l \in Pads, r \in Pads }

CryptoTexts ==
    UNION { Padded(v) : v \in UNION { CaseVariants(sp) :
                sp \in UNION { CryptoSpellings(X) : X \in CryptoKeys } } }

KeyAlphabet == {"a", "Z", "9", "-"}

SmallTexts == UNION { [1..n -> KeyAlphabet] : n \in 0..MaxKeyLen }

OtherTexts ==
    { Lower(p[1]) : p \in ALIASES } \cup { p[1] : p \in ALIASES }
    \cup { Lower(k) : k \in DOMAIN ASSET_REGISTRY } \cup DOMAIN ASSET_REGISTRY
    \cup { <<"b"," ","t"," ","c">>, <<"a","b","u","s","d","t">>,
           <<"x","u","s","d","t">>, <<"u","s","d","t">>,
           sBTC \o sUSDT \o sUSDT, sUSDT \o sETH \o sUSDT,
           <<"e","u","r","/","u","s","d">>, <<"z","x","9">>,
           <<"d","o","g","e","u","s","d","t">> }

AssetTexts == CryptoTexts \cup SmallTexts \cup OtherTexts

FallbackInputs ==
    { ("symbol" :> <<"e","t","h">>),
      ("ticker" :> <<"s","o","l","-","u","s","d">>),
      ("asset" :> <<>>) @@ ("symbol" :> sBTC \o sUSDT),
      ("asset" :> None) @@ ("ticker" :> <<"z","x","9">>),
      ("asset" :> sAAPL) @@ ("symbol" :> sBTC),
      ("symbol" :> None) @@ ("ticker" :> <<>>),
      <<>> }

ResolveInputs == { ("asset" :> s) : s \in AssetTexts } \cup FallbackInputs

\* A caller holds the argument of the call in resolveIn; resolveOut is NoResult
\* while the call has not run.
ResolveInit ==
    /\ registry = ASSET_REGISTRY
    /\ resolveIn \in ResolveInputs
    /\ resolveOut = NoResult

\* one call of resolve_asset: a pure lookup, the catalogue is not written
ResolveAsset ==
    /\ resolveOut = NoResult
    /\ resolveOut' = resolve_asset(registry, resolveIn)
    /\ UNCHANGED <<registry, resolveIn, exceptResolve>>

\* the caller goes on to its next call (a later prediction of the batch)
ResolveAgain ==
    /\ resolveOut # NoResult
    /\ resolveIn' \in FallbackInputs
    /\ resolveOut' = NoResult
    /\ UNCHANGED <<registry, exceptResolve>>

InitResolve ==
    ResolveInit /\ LoaderIdle /\ RankIdle /\ WorldIdle /\ ScoreIdle /\
    BatchIdle /\ L1Idle /\ L2Idle /\ CompositeIdle /\ ApiIdle /\
    HistoryIdle /\ EntryIdle /\ ConsumerIdle /\ OrchIdle /\ ScraperIdle /\
    CacheIdle /\ SideIdle /\ StoreIdle /\ RelIdle /\ RiskIdle

NextResolve == ResolveAsset \/ ResolveAgain

SpecResolve == InitResolve /\ [][NextResolve]_vars

-----------------------------------------------------------------------------
(* The inputs of add_selection_flags: tables of up to MaxRows rows whose   *)
(* gate columns sit at, above or below the default minimums, with equal    *)
(* and distinct scores; the table may lack a gate column or the score      *)
(* column; top_pct from 0 to above 1; gates set or disabled.               *)

MaxRows == 3

ScoredRow(conf, struct, score) ==
    [user_confidence |-> conf, structural_reliability |-> struct,
     final_reliability_score |-> score]

RankRows ==
    { ScoredRow(cs[1], cs[2], score) :
        cs \in { <<70, 55>>, <<69, 80>>, <<90, 54>> }, score \in {20, 40, 60} }

AllColumns == {"user_confidence", "structural_reliability", ScoreCol}

RankTables ==
    { [columns |-> c, rows |-> r] :
        c \in { AllColumns, AllColumns \ {"user_confidence"}, AllColumns \ {ScoreCol} },
        r \in UNION { [1..n -> RankRows] : n \in 0..MaxRows } }

TopPcts == {0, 30, 50, 100, 150}

GateArgs ==
    { <<NoGate, Gate(70), Gate(55)>>, <<NoGate, NoGate, NoGate>>,
      <<Gate(40), Gate(70), Gate(55)>> }

RankArgs ==
    { [top_pct |-> t, min_score |-> g[1], min_user_conf |-> g[2],
       min_structural |-> g[3]] : t \in TopPcts, g \in GateArgs }

RankInit ==
    /\ rankTable \in RankTables
    /\ rankArgs \in RankArgs
    /\ ranked = NotRanked

\* one call of add_selection_flags(rankTable, **rankArgs)
AddSelectionFlags ==
    /\ ranked = NotRanked
    /\ \E order \in SortedCandidates(rankTable, rankArgs) :
           ranked' = add_selection_flags(rankTable, rankArgs, order)
    /\ UNCHANGED <<rankTable, rankArgs, exceptRank>>

InitRank ==
    RankInit /\ ResolveIdle /\ LoaderIdle /\ WorldIdle /\ ScoreIdle /\
    BatchIdle /\ L1Idle /\ L2Idle /\ CompositeIdle /\ ApiIdle /\
    HistoryIdle /\ EntryIdle /\ ConsumerIdle /\ OrchIdle /\ ScraperIdle /\
    CacheIdle /\ SideIdle /\ StoreIdle /\ RelIdle /\ RiskIdle

NextRank == AddSelectionFlags

SpecRank == InitRank /\ [][NextRank]_vars

\* the text the latest call was given
ResolveRaw ==
    Or(Or(Or(Get(resolveIn, "asset"), Get(resolveIn, "symbol")),
          Get(resolveIn, "ticker")), <<>>)

\* C1: every supported spelling (X, XUSDT, X-USD, X/USDT; any letter case;
\* surrounding whitespace) of a crypto asset X of the catalogue resolves to
\* the canonical key X and the catalogue's descriptor of X, of type crypto.
C1_CryptoSpellingsResolve ==
    \A X \in CryptoKeys :
        (resolveOut # NoResult /\ Upper(Strip(ResolveRaw)) \in CryptoSpellings(X))
        => /\ resolveOut.key = X
           /\ resolveOut.data = ASSET_REGISTRY[X]
           /\ resolveOut.data.type = "crypto"
           /\ resolveOut.data.canonical = X

\* a mixed-case, padded X/USDT spelling has been resolved
C1_Witness ==
    /\ resolveIn = ("asset" :> <<" ","b","T","c","/","u","s","D","t","\t">>)
    /\ resolveOut # NoResult
    /\ resolveOut.key = sBTC

-----------------------------------------------------------------------------
(* The scorer's inputs: crypto, stock and unresolvable assets; either      *)
(* direction; with and without entry price and move; a well-formed and a   *)
(* malformed timestamp; with and without an exchange client; the exchange  *)
(* answering or failing; price histories around the 50-close and 80-bar    *)
(* thresholds.                                                             *)

Prediction(asset, direction, confidence, entry_price, move_pct, timestamp) ==
    [asset |-> asset, direction |-> direction, confidence |-> confidence,
     entry_price |-> entry_price, move_pct |-> move_pct, horizon_hours |-> 4,
     timestamp |-> timestamp]

ScoreAssets == { sBTC \o sUSDT, sAAPL, <<"Z","X","9">> }

Predictions ==
    { Prediction(a, d, c, pm[1], pm[2], t) :
        a \in ScoreAssets,
        d \in { <<"B","U","Y">>, <<"s","e","l","l">> },
        c \in { 72, 100 },
        pm \in { <<NoFloat, NoFloat>>, <<Fin(100 * Micro), NoFloat>>,
                 <<Fin(100 * Micro), Fin(4000)>> },
        t \in { "2026-01-23T08:00:00Z", "yesterday" } }

ExchangeStates == { <<"ok", "ok">>, <<"ok", "fail">>, <<"fail", "ok">> }

BarCounts ==
    { [h |-> 0, d |-> 0, w |-> 0], [h |-> 50, d |-> 0, w |-> 0],
      [h |-> 51, d |-> 30, w |-> 0], [h |-> 51, d |-> 80, w |-> 80],
      [h |-> 200, d |-> 200, w |-> 100] }

Worlds ==
    { [klines |-> x[1], ticker |-> x[2], bars |-> b, bias |-> tb,
       fundamental |-> f, ret |-> r, entry |-> e] :
        x \in ExchangeStates, b \in BarCounts, tb \in {-80, 40},
        f \in {50, 80}, r \in {-5, 0, 5}, e \in {0, 100} }

ScoreInit ==
    /\ predIn \in Predictions
    /\ world \in Worlds
    /\ binance_client \in {NoClient, AClient}
    /\ momentumsOut = NoMomentums
    /\ techOut = NotAsked
    /\ scored = NotScored

\* the caller fetches the momentumsOut it will pass (main.py line 169)
GetMomentums ==
    /\ momentumsOut = NoMomentums
    /\ scored = NotScored
    /\ momentumsOut' = get_momentums(registry, predIn, binance_client, world)
    /\ UNCHANGED <<predIn, techOut, scored, worldVars, exceptScore>>

\* one call of score_prediction, with the momentumsOut fetched or with none
ScorePrediction ==
    /\ scored = NotScored
    /\ ~IsRaised(momentumsOut)
    /\ scored' = score_prediction(registry, predIn, binance_client,
                    IF momentumsOut = NoMomentums THEN NoMomentums ELSE momentumsOut.value,
                    world)
    /\ UNCHANGED <<predIn, momentumsOut, techOut, worldVars, exceptScore>>

\* one call of get_technical_bias
GetTechnicalBias ==
    /\ techOut = NotAsked
    /\ techOut' = get_technical_bias(registry, predIn, binance_client, world)
    /\ UNCHANGED <<predIn, momentumsOut, scored, worldVars, exceptScore>>

InitScore ==
    ScoreInit /\ ResolveIdle /\ LoaderIdle /\ RankIdle /\ BatchIdle /\
    L1Idle /\ L2Idle /\ CompositeIdle /\ ApiIdle /\ HistoryIdle /\
    EntryIdle /\ ConsumerIdle /\ OrchIdle /\ ScraperIdle /\ CacheIdle /\
    SideIdle /\ StoreIdle /\ RelIdle /\ RiskIdle

NextScore == GetMomentums \/ ScorePrediction

SpecScore == InitScore /\ [][NextScore]_vars

NextTechBias == GetTechnicalBias

SpecTechBias == InitScore /\ [][NextTechBias]_vars

-----------------------------------------------------------------------------
(* The batch run of main.py: the credentials of the environment, a list of *)
(* up to MaxPreds predictions, the external world.                         *)

MaxPreds == 2

BatchPredictions ==
    { Prediction(sBTC \o sUSDT, <<"B","U","Y">>, 72, Fin(100 * Micro), Fin(4000),
                 "2026-01-23T08:00:00Z"),
      Prediction(sSP500, <<"S","E","L","L">>, 81, Fin(100 * Micro), Fin(2000),
                 "2026-01-23T09:00:00Z"),
      Prediction(<<"Z","X","9">>, <<"B","U","Y">>, 90, NoFloat, NoFloat,
                 "2026-01-23T08:00:00Z"),
      Prediction(sAAPL, <<"B","U","Y">>, 100, Fin(100 * Micro), NoFloat, "") }

BatchWorlds ==
    { [klines |-> x[1], ticker |-> x[2], bars |-> b, bias |-> 40,
       fundamental |-> 80, ret |-> 5, entry |-> 100] :
        x \in ExchangeStates,
        b \in { [h |-> 0, d |-> 0, w |-> 0], [h |-> 200, d |-> 200, w |-> 100] } }

Environments ==
    { [key |-> TRUE, secret |-> TRUE], [key |-> TRUE, secret |-> FALSE],
      [key |-> FALSE, secret |-> FALSE] }

BatchStart ==
    /\ environ \in Environments
    /\ world \in BatchWorlds
    /\ binance_client = NoClient
    /\ batchPreds \in UNION { [1..n -> BatchPredictions] : n \in 0..MaxPreds }
    /\ batchState = "start"
    /\ scored_rows = <<>>
    /\ batchSelected = NotRanked

\* one run, into an empty outputs directory
BatchInit == BatchStart /\ outputs = EmptyOutputs /\ runsLeft = 0

\* main.py lines 118-161: the client, the predictions, the early return
MainStart ==
    /\ batchState = "start"
    /\ binance_client' = ClientFromEnv(environ)
    /\ batchState' = IF Survivors(batchPreds) = <<>> THEN "done" ELSE "scoring"
    /\ UNCHANGED <<world, environ, batchPreds, scored_rows, batchSelected,
                   outputs, runsLeft, exceptBatch>>

\* the exception, if any, of lines 169-170 for the next prediction
NextScored ==
    ScoreOne(registry, Survivors(batchPreds)[Len(scored_rows) + 1],
             binance_client,
             get_momentums(registry, Survivors(batchPreds)[Len(scored_rows) + 1],
                           binance_client, world),
             world)

\* main.py lines 168-171 for the next prediction: nothing catches an
\* exception of get_momentums or score_prediction, it ends the run
ScoreNext ==
    /\ batchState = "scoring"
    /\ Len(scored_rows) < Len(Survivors(batchPreds))
    /\ IF IsRaised(NextScored)
       THEN batchState' = "halted" /\ UNCHANGED scored_rows
       ELSE scored_rows' = Append(scored_rows, NextScored.value)
            /\ UNCHANGED batchState
    /\ UNCHANGED <<worldVars, environ, batchPreds, batchSelected, outputs,
                   runsLeft, exceptBatch>>

\* lines 199-228 once the selection is known
ExportWith(flags) ==
    /\ batchSelected' = flags
    /\ outputs' = Exported(outputs, FullTable(scored_rows, flags))

\* main.py lines 173-228: the table, the selection and the exports
MainSelect ==
    /\ batchState = "scoring"
    /\ Len(scored_rows) = Len(Survivors(batchPreds))
    /\ \E order \in SortedCandidates(BatchTable(scored_rows), MainArgs) :
           ExportWith(add_selection_flags(BatchTable(scored_rows), MainArgs, order))
    /\ batchState' = "done"
    /\ UNCHANGED <<worldVars, environ, batchPreds, scored_rows, runsLeft,
                   exceptBatch>>

InitBatch ==
    BatchInit /\ ResolveIdle /\ LoaderIdle /\ RankIdle /\ ScoreIdle /\
    L1Idle /\ L2Idle /\ CompositeIdle /\ ApiIdle /\ HistoryIdle /\
    EntryIdle /\ ConsumerIdle /\ OrchIdle /\ ScraperIdle /\ CacheIdle /\
    SideIdle /\ StoreIdle /\ RelIdle /\ RiskIdle

NextBatch == MainStart \/ ScoreNext \/ MainSelect

SpecBatch == InitBatch /\ [][NextBatch]_vars

\* The batch run several times over the same outputs directory: each run is
\* a new process with its own predictions; the directory is what the runs
\* before left.
MaxRuns == 2

RunsInit == BatchStart /\ outputs = EmptyOutputs /\ runsLeft = MaxRuns - 1

\* python main.py once more, after the run before has ended
RunAgain ==
    /\ batchState \in {"done", "halted"}
    /\ runsLeft > 0
    /\ runsLeft' = runsLeft - 1
    /\ batchPreds' \in UNION { [1..n -> BatchPredictions] : n \in 0..MaxPreds }
    /\ batchState' = "start"
    /\ binance_client' = NoClient
    /\ scored_rows' = <<>>
    /\ batchSelected' = NotRanked
    /\ UNCHANGED <<world, environ, outputs, exceptBatch>>

InitRuns ==
    RunsInit /\ ResolveIdle /\ LoaderIdle /\ RankIdle /\ ScoreIdle /\
    L1Idle /\ L2Idle /\ CompositeIdle /\ ApiIdle /\ HistoryIdle /\
    EntryIdle /\ ConsumerIdle /\ OrchIdle /\ ScraperIdle /\ CacheIdle /\
    SideIdle /\ StoreIdle /\ RelIdle /\ RiskIdle

NextRuns == MainStart \/ ScoreNext \/ MainSelect \/ RunAgain

SpecRuns == InitRuns /\ [][NextRuns]_vars

-----------------------------------------------------------------------------
(* The L1 consumer: messages with each field present or absent, books      *)
(* crossed, locked and open, prices as numbers, numeric text, other text,   *)
(* nan and null, timestamps on both sides of the 300-second window.        *)

NowMicros == 1000 * Micro

Seconds(n) == n * Micro

L1Timestamps ==
    { Absent, JStr(<<"1","0","0","0">>), JNum(NaN) }
    \cup { JInt(NowMicros + d) :
             d \in { 0, -Seconds(299), -Seconds(300), -Seconds(300) - 1,
                     -Seconds(301), Seconds(300), Seconds(300) + 1 } }

L1Bids ==
    { Absent, N(100 * Micro), N(0), N(-Micro), JStr(<<"1","0","0">>),
      JStr(<<"a","b","c">>), JNum(NaN), JNull }

L1Asks ==
    { Absent, N(101 * Micro), N(99 * Micro), N(100 * Micro), N(0),
      JStr(<<"1","0","1">>) }

L1Message(symbol, exchange, ts, bid, ask) ==
    WithField(WithField(WithField(WithField(WithField(<<>>,
        "symbol", symbol), "exchange", exchange), "timestamp_utc_micros", ts),
        "best_bid_price", bid), "best_ask_price", ask)

L1Messages ==
    { L1Message(s, x, ts, bid, ask) :
        s \in { Absent, T(sBTC \o sUSDT) }, x \in { Absent, T(<<"b","i","n">>) },
        ts \in L1Timestamps, bid \in L1Bids, ask \in L1Asks }

L1Init ==
    /\ l1Msg \in L1Messages
    /\ l1Now = NowMicros
    /\ l1Valid = NotValidated
    /\ l1Metrics = NoMetrics

\* run.py line 24: validate_l1(data)
ValidateL1 ==
    /\ l1Valid = NotValidated
    /\ l1Valid' = validate_l1(l1Msg, l1Now)
    /\ UNCHANGED <<l1Msg, l1Now, l1Metrics, exceptL1>>

\* run.py line 27: compute_l1_metrics(data) for a message validate_l1 accepted
ComputeL1Metrics ==
    /\ l1Valid = Returned(TRUE)
    /\ l1Metrics = NoMetrics
    /\ l1Metrics' = compute_l1_metrics(l1Msg)
    /\ UNCHANGED <<l1Msg, l1Now, l1Valid, exceptL1>>

InitL1 ==
    L1Init /\ ResolveIdle /\ LoaderIdle /\ RankIdle /\ WorldIdle /\
    ScoreIdle /\ BatchIdle /\ L2Idle /\ CompositeIdle /\ ApiIdle /\
    HistoryIdle /\ EntryIdle /\ ConsumerIdle /\ OrchIdle /\ ScraperIdle /\
    CacheIdle /\ SideIdle /\ StoreIdle /\ RelIdle /\ RiskIdle

NextL1 == ValidateL1 \/ ComputeL1Metrics

SpecL1 == InitL1 /\ [][NextL1]_vars

-----------------------------------------------------------------------------
(* The L2 depth computation: books of up to MaxLevels levels a side, levels *)
(* in and out of price order, inside and outside the band, a level that     *)
(* does not parse, a level that does not unpack; pct of 0, 1 and 2 percent. *)

MaxLevels == 2

Level(price, qty) == JList(<<price, qty>>)

Whole(n) == N(n * Micro)

BidLevels ==
    { Level(Whole(100), Whole(2)), Level(Whole(99), Whole(1)),
      Level(Whole(98), Whole(1)), Level(Whole(101), Whole(1)),
      Level(T(<<"x">>), Whole(1)), Level(Whole(100), Whole(-1)),
      JList(<<Whole(100)>>) }

AskLevels ==
    { Level(Whole(101), Whole(3)), Level(Whole(102), Whole(1)),
      Level(Whole(104), Whole(1)), Level(T(<<"1","0","1">>), T(<<"3">>)),
      Level(Whole(102), T(<<"x">>)) }

Books(levels) ==
    { JList(b) : b \in UNION { [1..n -> levels] : n \in 0..MaxLevels } }

L2Message(exchange, ts, bids, asks) ==
    WithField(WithField(WithField(WithField(WithField(<<>>,
        "symbol", T(sBTC \o sUSDT)), "exchange", exchange),
        "timestamp_utc_micros", ts), "bids", bids), "asks", asks)

L2Messages ==
    { L2Message(x, ts, b, a) :
        x \in { Absent, T(<<"b","i","n">>) },
        ts \in { JInt(NowMicros), JInt(NowMicros - Seconds(301)) },
        b \in Books(BidLevels) \cup { JNull },
        a \in Books(AskLevels) }

L2Init ==
    /\ l2Msg \in L2Messages
    /\ l2Pct \in {0, 1, 2}
    /\ l2Now = NowMicros
    /\ l2Valid = NotValidated
    /\ l2Depth = NoMetrics

\* L2/run.py line 23: validate_l2(data)
ValidateL2 ==
    /\ l2Valid = NotValidated
    /\ l2Valid' = validate_l2(l2Msg, l2Now)
    /\ UNCHANGED <<l2Msg, l2Pct, l2Now, l2Depth, exceptL2>>

\* L2/run.py line 26: compute_depth_l2(data) for a message validate_l2
\* accepted
ComputeDepthL2 ==
    /\ l2Valid = Returned(TRUE)
    /\ l2Depth = NoMetrics
    /\ l2Depth' = compute_depth_l2(l2Msg, l2Pct)
    /\ UNCHANGED <<l2Msg, l2Pct, l2Now, l2Valid, exceptL2>>

InitL2 ==
    L2Init /\ ResolveIdle /\ LoaderIdle /\ RankIdle /\ WorldIdle /\
    ScoreIdle /\ BatchIdle /\ L1Idle /\ CompositeIdle /\ ApiIdle /\
    HistoryIdle /\ EntryIdle /\ ConsumerIdle /\ OrchIdle /\ ScraperIdle /\
    CacheIdle /\ SideIdle /\ StoreIdle /\ RelIdle /\ RiskIdle

NextL2 == ValidateL2 \/ ComputeDepthL2

SpecL2 == InitL2 /\ [][NextL2]_vars

-----------------------------------------------------------------------------
(* The composite scorer's inputs: weight mappings with and without the      *)
(* volatility dimension and with zero weights; for BTC, micros and          *)
(* volatility score lists of 0, 1, 2, 3 and 12 signals (so that the count   *)
(* cap at 10 is reached and averages fall between 1e-4 steps), averages on  *)
(* and around the +-0.20 thresholds, and signals of a source that has no   *)
(* weight; for ETH, a sector list.                                         *)

Signal(source, symbol, score) == [source |-> source, symbol |-> symbol, score |-> score]

SignalBlock(source, symbol, scores) ==
    [i \in 1..Len(scores) |-> Signal(source, symbol, scores[i])]

Repeat(x, n) == [i \in 1..n |-> x]

WeightConfigs ==
    { [micros |-> 8, macros |-> 5, sector |-> 4, volatility |-> 3, social |-> 2,
       calendar |-> 1],
      [micros |-> 8],
      [micros |-> 8, volatility |-> 0],
      [micros |-> 0, volatility |-> 0],
      [volatility |-> 3] }

MicrosLists == { <<>>, <<5>>, <<10, 0, 0>>, <<-7, 3>>, Repeat(20, 12) }

VolatilityLists ==
    { <<>>, <<5>>, <<4>>, <<-4>>, <<-5>>, <<1>>, <<4, 5>>, Repeat(-20, 12) }

UnweightedLists == { <<>>, <<20>>, <<-20, -20>> }

SectorLists == { <<>>, <<1>>, <<-13, 0, 0>> }

SignalLists ==
    { SignalBlock("micros", "BTC", m) \o SignalBlock("sector", "ETH", e)
      \o SignalBlock("volatility", "BTC", v) \o SignalBlock("news", "BTC", u) :
        m \in MicrosLists, e \in SectorLists, v \in VolatilityLists,
        u \in UnweightedLists }

CompositeInit ==
    /\ csWeights \in WeightConfigs
    /\ csSignals \in SignalLists
    /\ csResult = NotScoredYet

\* one call of CompositeScorer.score
CompositeScore ==
    /\ csResult = NotScoredYet
    /\ csResult' = Returned(CompositeScorer_score(csWeights, csSignals))
    /\ UNCHANGED <<csWeights, csSignals, exceptComposite>>

InitComposite ==
    CompositeInit /\ ResolveIdle /\ LoaderIdle /\ RankIdle /\ WorldIdle /\
    ScoreIdle /\ BatchIdle /\ L1Idle /\ L2Idle /\ ApiIdle /\ HistoryIdle /\
    EntryIdle /\ ConsumerIdle /\ OrchIdle /\ ScraperIdle /\ CacheIdle /\
    SideIdle /\ StoreIdle /\ RelIdle /\ RiskIdle

NextComposite == CompositeScore

SpecComposite == InitComposite /\ [][NextComposite]_vars

-----------------------------------------------------------------------------
(* The sentiment service: api/core/security.py, api/main.py,                *)
(* api/routers/sentiment_router.py, core/orchestrator.py and                *)
(* pipelines/micros/micros_sentiment.py.                                    *)
(*                                                                         *)
(* A file is NoSuchFile, Unreadable, or File(content).  The weights file holds *)
(* the 'weights' mapping of weights.yaml, each value a number (in          *)
(* twentieths) or a text.  The raw micros file holds rows, each with the   *)
(* tickers detect_tickers finds in its text and the compound score the     *)
(* analyzer gives it (in twentieths).  A per-dimension table holds its      *)
(* column names and its rows.                                               *)

NoSuchFile == [exists |-> FALSE]

Unreadable == [exists |-> TRUE, unreadable |-> TRUE]

File(content) == [exists |-> TRUE, content |-> content]

Num(n) == [num |-> n]

Txt(t) == [text |-> t]

\* ---- api/core/settings.py, api/core/security.py

\* settings.api_key with no API_KEY in the environment
API_KEY == "DEV_DEFAULT_KEY"

\* api_key_header = APIKeyHeader(name="X-API-Key", auto_error=True): a
\* request without the header is rejected by the framework before
\* validate_api_key runs.  The status it answers with is the framework's:
\* 403 in the FastAPI releases before 0.122, 401 from then on; the
\* repository pins no release.
MissingKeyStatuses == {401, 403}

\* validate_api_key(api_key) for a header that is present
validate_api_key(api_key) ==
    IF api_key # API_KEY THEN Raised(401) ELSE Returned(api_key)

\* ---- core/composite_scorer.py, CompositeScorer.__init__

\* the loop over weights.items(): the values float() accepts that are >= 0
clean_weights(weights) ==
    [k \in { j \in DOMAIN weights : "num" \in DOMAIN weights[j] /\ weights[j].num >= 0 }
        |-> weights[k].num]

CompositeScorer_init(weights_file) ==
    IF ~weights_file.exists THEN Raised("FileNotFoundError")
    ELSE IF DOMAIN weights_file.content = {} THEN Raised("ValueError")
    ELSE IF DOMAIN clean_weights(weights_file.content) = {} THEN Raised("ValueError")
    ELSE Returned(clean_weights(weights_file.content))

\* ---- pipelines/micros/micros_sentiment.py

NotWritten == [written |-> FALSE]

\* df[df["tickers"].map(len) > 0]
WithTickers(rows) == SelectSeq(rows, LAMBDA r : r.tickers # {})

\* build_micros_sentiment(): what it returns or raises, and what it writes to
\* OUT_PARQUET and OUT_CSV
build_micros_sentiment(raw_file) ==
    IF ~raw_file.exists
    THEN [result |-> Raised("FileNotFoundError"), written |-> NotWritten]
    ELSE IF WithTickers(raw_file.content) = <<>>
    THEN [result |-> Returned(<<>>), written |-> NotWritten]
    ELSE [result |-> Returned(WithTickers(raw_file.content)),
          written |-> File(WithTickers(raw_file.content))]

\* ---- core/orchestrator.py

ASSET_UNIVERSE == <<"BTC", "ETH">>

\* the rows of an exploded table that carry a ticker
RowsOf(rows, ticker) == { i \in 1..Len(rows) : ticker \in rows[i].tickers }

\* series.mean() over the rows I
Mean(rows, I) == SumScores(rows, I) \div Cardinality(I)

\* one signal for a ticker, if any row carries it
TickerSignal(rows, ticker) ==
    IF RowsOf(rows, ticker) = {} THEN <<>>
    ELSE <<Signal("micros", ticker, Mean(rows, RowsOf(rows, ticker)))>>

\* _micros_signals(), given what build_micros_sentiment returned
micros_signals(built) ==
    IF IsRaised(built) THEN built
    ELSE Returned(TickerSignal(built.value, ASSET_UNIVERSE[1])
                  \o TickerSignal(built.value, ASSET_UNIVERSE[2]))

NoDataFrame == [none |-> TRUE]

\* _load_df(base_path): None when the file is missing or cannot be read
load_df(file) ==
    IF file.exists /\ "content" \in DOMAIN file THEN file.content ELSE NoDataFrame

\* df is None or df.empty, or a needed column is missing
NothingToScore(df, needed) ==
    df = NoDataFrame \/ df.rows = <<>> \/ ~(needed \subseteq df.columns)

\* df["sentiment_score"].astype(float) works
AllNumeric(rows) == \A i \in 1..Len(rows) : "num" \in DOMAIN rows[i].sentiment_score

\* the rows with their score as a float
AsFloat(rows) ==
    [i \in 1..Len(rows) |-> [source |-> rows[i].source, score |-> rows[i].sentiment_score.num]]

\* the same score for every asset of the universe
ForUniverse(source, score) ==
    <<Signal(source, ASSET_UNIVERSE[1], score), Signal(source, ASSET_UNIVERSE[2], score)>>

\* _macros_signals / _sector_signals / _social_signals, given the table
global_signals(source, df) ==
    IF NothingToScore(df, {"sentiment_score"}) THEN Returned(<<>>)
    ELSE IF ~AllNumeric(df.rows) THEN Raised("ValueError")
    ELSE Returned(ForUniverse(source, Mean(AsFloat(df.rows), 1..Len(df.rows))))

\* the rows of one volatility source
SourceRows(rows, source) == { i \in 1..Len(rows) : rows[i].source = source }

\* lines 241-263: BTC from BTC_VOL, else from CVI
BtcVolatility(rows) ==
    IF SourceRows(rows, "BTC_VOL") # {}
    THEN <<Signal("volatility", "BTC", Mean(rows, SourceRows(rows, "BTC_VOL")))>>
    ELSE IF SourceRows(rows, "CVI") # {}
    THEN <<Signal("volatility", "BTC", Mean(rows, SourceRows(rows, "CVI")))>>
    ELSE <<>>

\* lines 265-276: ETH from CVI
EthVolatility(rows) ==
    IF SourceRows(rows, "CVI") # {}
    THEN <<Signal("volatility", "ETH", Mean(rows, SourceRows(rows, "CVI")))>>
    ELSE <<>>

\* _volatility_signals, given the table
volatility_signals(df) ==
    IF NothingToScore(df, {"sentiment_score", "source"}) THEN Returned(<<>>)
    ELSE IF ~AllNumeric(df.rows) THEN Raised("ValueError")
    ELSE Returned(BtcVolatility(AsFloat(df.rows)) \o EthVolatility(AsFloat(df.rows)))

\* _calendar_signals
calendar_signals == Returned(<<>>)

\* signals.extend(...) for each helper in turn; the first to raise ends the call
RECURSIVE Extend(_, _)
Extend(signals, results) ==
    IF results = <<>> THEN Returned(signals)
    ELSE IF IsRaised(Head(results)) THEN Head(results)
    ELSE Extend(signals \o Head(results).value, Tail(results))

\* SentimentOrchestrator.__init__: self.assets
SelfAssets(assets) == IF assets.given THEN assets.assets ELSE ASSET_UNIVERSE

\* line 322: [s for s in signals if s.symbol in self.assets]
InUniverse(result, assets) ==
    IF IsRaised(result) THEN result
    ELSE Returned(SelectSeq(result.value,
                 LAMBDA g : \E i \in 1..Len(assets) : assets[i] = g.symbol))

\* SentimentOrchestrator.collect_signals, given self.assets and what the
\* micros build returned
collect_signals(assets, built, files) ==
    InUniverse(Extend(<<>>, << micros_signals(built),
                    global_signals("macros", load_df(files.macros)),
                    global_signals("sector", load_df(files.sector)),
                    global_signals("social", load_df(files.social)),
                    volatility_signals(load_df(files.volatility)),
                    calendar_signals >>), assets)

\* ---- utils/sentiment_scaler.py, pipelines/volatility/volatility_sentiment.py

\* vol_to_sentiment(v) = -tanh((v - 0.5) / 0.5) in hundredths, for an index
\* value v of 0, 0.25, 0.5, 0.75, 1.0 (v in quarters)
vol_to_sentiment(v) == << 76, 46, 0, -46, -76 >>[v + 1]

\* lines 18-23: one record per row of a raw file that was read
VolRecords(raw, source) ==
    IF ~raw.exists THEN <<>>
    ELSE [i \in 1..Len(raw.content) |->
             [source |-> source, sentiment_score |-> Num(vol_to_sentiment(raw.content[i]))]]

\* lines 24-31: the composite of the two last index values; iloc[-1] of a
\* file without rows raises and the record is skipped
ScviRecord(btc, eth) ==
    IF btc.exists /\ eth.exists /\ btc.content # <<>> /\ eth.content # <<>>
    THEN << [source |-> "SCVI",
             sentiment_score |->
                 Num(vol_to_sentiment((btc.content[Len(btc.content)]
                                       + eth.content[Len(eth.content)]) \div 2))] >>
    ELSE <<>>

VolatilityRecords(btc, eth) ==
    VolRecords(btc, "BTC_VOL") \o VolRecords(eth, "ETH_VOL") \o ScviRecord(btc, eth)

\* generate_volatility_sentiment: the table it saves, if there is a record
generate_volatility_sentiment(disk) ==
    IF VolatilityRecords(disk.btc_vol, disk.eth_vol) = <<>> THEN disk
    ELSE [disk EXCEPT !.volatility =
             File([columns |-> {"source", "index_value", "sentiment_score", "timestamp"},
                   rows |-> VolatilityRecords(disk.btc_vol, disk.eth_vol)])]

\* SentimentOrchestrator.composite_scores, given the scorer's weights
composite_scores(weights, collected) ==
    IF IsRaised(collected) THEN collected
    ELSE Returned(CompositeScorer_score(weights, collected.value))

\* ---- api/routers/sentiment_router.py

SymbolText == [BTC |-> <<"B", "T", "C">>, ETH |-> <<"E", "T", "H">>]

\* scores.get(asset.upper()); a missing entry raises ValueError
EntryFor(scores, asset) ==
    IF \E s \in DOMAIN scores : SymbolText[s] = Upper(asset)
    THEN Returned(scores[CHOOSE s \in DOMAIN scores : SymbolText[s] = Upper(asset)])
    ELSE Raised("ValueError")

\* composite_score(asset, timestamp), given the constructed scorer and what
\* the micros build returned
ScoreAsset(scorer, scores, asset) ==
    IF IsRaised(scores) THEN scores ELSE EntryFor(scores.value, asset)

composite_score(asset, scorer, built, files) ==
    IF IsRaised(scorer) THEN scorer
    ELSE ScoreAsset(scorer, composite_scores(scorer.value, collect_signals(ASSET_UNIVERSE, built, files)), asset)

\* get_sentiment: the response for what composite_score returned or raised
SentimentResponse(asset, outcome) ==
    IF ~IsRaised(outcome)
    THEN [status |-> 200, asset |-> asset, data |-> outcome.value]
    ELSE IF outcome.raised = "ValueError" THEN [status |-> 400]
    ELSE [status |-> 500]

\* the files after a request whose key was accepted: the micros build runs
\* once the scorer is constructed
FilesAfter(files, scorer, built) ==
    IF IsRaised(scorer) \/ built.written = NotWritten THEN files
    ELSE [files EXCEPT !.micros_sentiment = built.written]

\* GET /sentiment with an accepted key
get_sentiment(asset, files) ==
    [response |-> SentimentResponse(asset,
                      composite_score(asset, CompositeScorer_init(files.weights),
                                      build_micros_sentiment(files.micros_raw).result, files)),
     files |-> FilesAfter(files, CompositeScorer_init(files.weights),
                          build_micros_sentiment(files.micros_raw))]

-----------------------------------------------------------------------------
(* The sentiment service's inputs: the weights file missing, without a       *)
(* mapping, without a valid weight, and with valid weights; the raw micros  *)
(* file missing, without a mention of an asset, and with mentions; the       *)
(* micros sentiment table absent, as the raw file gives it, and stale; the  *)
(* per-dimension tables missing, unreadable, empty, without a column, with  *)
(* a score that is no number, and well formed.  Requests come with no key,  *)
(* a wrong key and the configured key, for assets in either letter case and *)
(* for an asset outside the universe.                                       *)

MaxRequests == 2

WeightsFiles ==
    { NoSuchFile,
      File(<<>>),
      File([micros |-> Txt("high"), macros |-> Num(-5)]),
      File([micros |-> Num(8), macros |-> Num(5), volatility |-> Txt("x")]) }

MicrosRow(tickers, score) == [tickers |-> tickers, score |-> score]

MicrosRawFiles ==
    { NoSuchFile,
      File(<<MicrosRow({}, 5)>>),
      File(<<MicrosRow({"BTC"}, 4)>>),
      File(<<MicrosRow({"BTC", "ETH"}, 6), MicrosRow({}, -9), MicrosRow({"BTC"}, 2)>>) }

MicrosSentimentFiles ==
    { NoSuchFile,
      File(<<MicrosRow({"BTC"}, 4)>>),
      File(<<MicrosRow({"ETH"}, -3)>>) }

Row(source, value) == [source |-> source, sentiment_score |-> value]

Table(columns, rows) == File([columns |-> columns, rows |-> rows])

TableColumns == {"timestamp", "source", "sentiment_score"}

MacrosFiles ==
    { NoSuchFile,
      Unreadable,
      Table(TableColumns, <<Row("fed", Num(3)), Row("cpi", Txt("n/a"))>>),
      Table(TableColumns, <<Row("fed", Num(2)), Row("cpi", Num(6))>>) }

SectorFiles == { NoSuchFile, Table(TableColumns, <<Row("defi", Num(-4))>>) }

SocialFiles == { Table(TableColumns, <<>>) }

VolatilityFiles ==
    { NoSuchFile,
      Table({"timestamp", "sentiment_score"}, <<Row("CVI", Num(6))>>),
      Table(TableColumns, <<Row("CVI", Txt("high"))>>),
      Table(TableColumns, <<Row("CVI", Num(6))>>),
      Table(TableColumns, <<Row("BTC_VOL", Num(-5)), Row("CVI", Num(5)), Row("BTC_VOL", Num(-7))>>) }

Headers == { NoHeader, <<API_KEY>>, <<"not-the-key">> }

Assets == { <<"B","T","C">>, <<"b","t","c">>, <<"E","t","h">>, <<"G","O","L","D">> }

ApiInit ==
    /\ apiFiles \in [weights : WeightsFiles, micros_raw : MicrosRawFiles,
                     micros_sentiment : MicrosSentimentFiles, macros : MacrosFiles,
                     sector : SectorFiles, social : SocialFiles,
                     volatility : VolatilityFiles]
    /\ apiHeader = NoHeader
    /\ apiAsset = <<>>
    /\ apiResponse = NotAnswered
    /\ apiOrchestrated = 0
    /\ apiRequests = 0

\* a request the framework or validate_api_key rejects: get_sentiment is not called
Rejected(header, asset) ==
    /\ \/ header = NoHeader /\ \E status \in MissingKeyStatuses :
                                  apiResponse' = [status |-> status]
       \/ /\ header # NoHeader
          /\ IsRaised(validate_api_key(header[1]))
          /\ apiResponse' = [status |-> validate_api_key(header[1]).raised]
    /\ UNCHANGED <<apiFiles, apiOrchestrated>>

\* a request whose key is accepted: get_sentiment runs
Accepted(header, asset) ==
    /\ header # NoHeader
    /\ ~IsRaised(validate_api_key(header[1]))
    /\ apiResponse' = get_sentiment(asset, apiFiles).response
    /\ apiFiles' = get_sentiment(asset, apiFiles).files
    /\ apiOrchestrated' = apiOrchestrated + 1

\* one GET /sentiment request, from the framework's key check to the response
GetSentiment ==
    /\ apiRequests < MaxRequests
    /\ \E header \in Headers, asset \in Assets :
        /\ apiHeader' = header
        /\ apiAsset' = asset
        /\ Rejected(header, asset) \/ Accepted(header, asset)
    /\ apiRequests' = apiRequests + 1
    /\ UNCHANGED exceptApi

InitApi ==
    ApiInit /\ ResolveIdle /\ LoaderIdle /\ RankIdle /\ WorldIdle /\
    ScoreIdle /\ BatchIdle /\ L1Idle /\ L2Idle /\ CompositeIdle /\
    HistoryIdle /\ EntryIdle /\ ConsumerIdle /\ OrchIdle /\ ScraperIdle /\
    CacheIdle /\ SideIdle /\ StoreIdle /\ RelIdle /\ RiskIdle

NextApi == GetSentiment

SpecApi == InitApi /\ [][NextApi]_vars

-----------------------------------------------------------------------------
(* The price history behind market_data.py, for a crypto asset.  Time is in *)
(* ticks; an hourly bar covers BarLen ticks from its open_time.  Asked at   *)
(* time now, the exchange returns the bars opened by then, the running one  *)
(* with the values it has so far, and the ticker returns the price at now.  *)
(* Prices are whole units; a momentum is in 1e-6.                           *)

\* Client.KLINE_INTERVAL_1HOUR, in ticks
BarLen == 2

\* the last tick whose price a bar opened at o holds when read at now
LastTickOf(o, now) == Min(o + BarLen - 1, now)

\* one row of binance_client.get_klines: open_time and close (the price at
\* the bar's last tick so far)
Kline(path, o, now) == [open_time |-> o, close |-> path[LastTickOf(o, now)]]

\* _fetch_binance_ohlcv(binance_client, symbol, "1h", limit) called at now
fetch_binance_ohlcv(path, now) ==
    [i \in 1..((now \div BarLen) + 1) |-> Kline(path, (i - 1) * BarLen, now)]

\* _slice_until(df, ts_utc): df.loc[df.index <= ts_utc]
slice_until(df, ts_utc) == SelectSeq(df, LAMBDA bar : bar.open_time <= ts_utc)

\* df["close"]
CloseSeries(df) == [i \in 1..Len(df) |-> df[i].close]

\* _momentum(series, bars)
momentum(series, bars) ==
    IF Len(series) < bars + 1 THEN 0
    ELSE IF series[Len(series) - bars] = 0 THEN 0
    ELSE ((series[Len(series)] - series[Len(series) - bars]) * Micro)
         \div series[Len(series) - bars]

\* get_entry_inputs lines 252-256: the live ticker price, else the last close
SpotPrice(path, now, ticker, closes_1h) ==
    IF ticker = "ok" THEN Fin(path[now])
    ELSE IF Len(closes_1h) > 0 THEN Fin(closes_1h[Len(closes_1h)])
    ELSE NaN

\* get_momentums and get_entry_inputs for a crypto asset, scored at now: the
\* sliced hourly closes, momentum_5h and spot
MarketInputs(path, ts, now, ticker) ==
    [closes_1h |-> CloseSeries(slice_until(fetch_binance_ohlcv(path, now), ts)),
     momentum_5h |-> momentum(CloseSeries(slice_until(fetch_binance_ohlcv(path, now), ts)), 5),
     spot |-> SpotPrice(path, now, ticker,
                        CloseSeries(slice_until(fetch_binance_ohlcv(path, now), ts)))]

-----------------------------------------------------------------------------
(* The price histories: a fixed rising start, then MaxFree ticks at which    *)
(* the price is either of two values; evaluation timestamps within those    *)
(* ticks, at a bar's open and inside it; scoring at the evaluation          *)
(* timestamp and later; the ticker answering or failing.                    *)

MaxTick == 13

MaxFree == 5

Ticks == 0..MaxTick

FreeTicks == (MaxTick - MaxFree + 1)..MaxTick

TickPrices == {100, 120}

PricePaths ==
    { [t \in Ticks |-> IF t \in FreeTicks THEN tail[t] ELSE 100 + t] :
        tail \in [FreeTicks -> TickPrices] }

HistoryInit ==
    /\ mkPath \in PricePaths
    /\ mkT \in FreeTicks
    /\ mkNow \in { t \in FreeTicks : t >= mkT }
    /\ mkTicker \in {"ok", "fail"}
    /\ mkInputs = NotDerived

\* get_momentums and get_entry_inputs run for the prediction at mkNow
DeriveInputs ==
    /\ mkInputs = NotDerived
    /\ mkInputs' = MarketInputs(mkPath, mkT, mkNow, mkTicker)
    /\ UNCHANGED <<mkPath, mkT, mkNow, mkTicker, exceptHistory>>

InitHistory ==
    HistoryInit /\ ResolveIdle /\ LoaderIdle /\ RankIdle /\ WorldIdle /\
    ScoreIdle /\ BatchIdle /\ L1Idle /\ L2Idle /\ CompositeIdle /\
    ApiIdle /\ EntryIdle /\ ConsumerIdle /\ OrchIdle /\ ScraperIdle /\
    CacheIdle /\ SideIdle /\ StoreIdle /\ RelIdle /\ RiskIdle

NextHistory == DeriveInputs

SpecHistory == InitHistory /\ [][NextHistory]_vars

-----------------------------------------------------------------------------
(* entry_quality.py, compute_entry_target_score, in Python's float          *)
(* arithmetic (IEEE 754 binary64, round to nearest, ties to even).          *)
(*                                                                         *)
(* A natural number of any size is the sequence of its base-2^13 digits,    *)
(* least significant first, without leading zeros.  A double that is zero   *)
(* or positive is [m, e] for the value m * 2^e with 2^52 <= m < 2^53, or    *)
(* DZero; a negative one is DNeg (only its sign matters: it is clamped).    *)

Limb == 2^13

Digit(A, i) == IF i <= Len(A) THEN A[i] ELSE 0

\* drop the zero digits at the most significant end
RECURSIVE Trim(_)
Trim(A) == IF A # <<>> /\ A[Len(A)] = 0 THEN Trim(SubSeq(A, 1, Len(A) - 1)) ELSE A

\* digits from column sums: carry c into the columns of A
RECURSIVE Carry(_, _)
Carry(A, c) ==
    IF A = <<>> THEN (IF c = 0 THEN <<>> ELSE <<c % Limb>> \o Carry(<<>>, c \div Limb))
    ELSE <<(Head(A) + c) % Limb>> \o Carry(Tail(A), (Head(A) + c) \div Limb)

BigAdd(A, B) ==
    Trim(Carry([k \in 1..Max(Len(A), Len(B)) |-> Digit(A, k) + Digit(B, k)], 0))

RECURSIVE ColumnSum(_, _, _, _)
\* the sum of A[i] * B[k - i + 1] over i from 1 to n
ColumnSum(A, B, k, n) ==
    IF n = 0 THEN 0
    ELSE A[n] * Digit(B, IF k - n + 1 >= 1 THEN k - n + 1 ELSE Len(B) + 1)
         + ColumnSum(A, B, k, n - 1)

BigMul(A, B) ==
    IF A = <<>> \/ B = <<>> THEN <<>>
    ELSE Trim(Carry([k \in 1..(Len(A) + Len(B) - 1) |-> ColumnSum(A, B, k, Len(A))], 0))

\* 2^k
BigPow2(k) ==
    [i \in 1..((k \div 13) + 1) |-> IF i = (k \div 13) + 1 THEN 2^(k % 13) ELSE 0]

\* a natural below 2^31
BigOf(n) == Carry(<<>>, n)

\* the number of binary digits of one digit, and of a natural
DigitBits(x) == CHOOSE n \in 0..13 : x < 2^n /\ (n = 0 \/ x >= 2^(n - 1))

BitLen(A) == IF A = <<>> THEN 0 ELSE (Len(A) - 1) * 13 + DigitBits(A[Len(A)])

\* -1, 0, 1 as A is below, equal to, above B
RECURSIVE CmpFrom(_, _, _)
CmpFrom(A, B, i) ==
    IF i = 0 THEN 0
    ELSE IF A[i] < B[i] THEN -1
    ELSE IF A[i] > B[i] THEN 1
    ELSE CmpFrom(A, B, i - 1)

BigCmp(A, B) ==
    IF Len(A) < Len(B) THEN -1
    ELSE IF Len(A) > Len(B) THEN 1
    ELSE CmpFrom(A, B, Len(A))

\* floor(A / 2^k)
ShiftDigits(D, r) ==
    [i \in 1..Len(D) |-> (D[i] \div 2^r) + (Digit(D, i + 1) % 2^r) * 2^(13 - r)]

ShiftRight(A, k) ==
    IF k \div 13 >= Len(A) THEN <<>>
    ELSE Trim(ShiftDigits(SubSeq(A, (k \div 13) + 1, Len(A)), k % 13))

\* A mod 2^k
LowBits(A, k) ==
    Trim([i \in 1..Min(Len(A), (k \div 13) + 1) |->
            IF i = (k \div 13) + 1 THEN A[i] % 2^(k % 13) ELSE A[i]])

\* floor(A / d) and A mod d for a divisor below 2^13, from the top digit down
RECURSIVE DivFrom(_, _, _, _)
DivFrom(A, d, i, rem) ==
    IF i = 0 THEN [quot |-> <<>>, rem |-> rem]
    ELSE [quot |-> DivFrom(A, d, i - 1, (rem * Limb + A[i]) % d).quot
                   \o <<(rem * Limb + A[i]) \div d>>,
          rem |-> DivFrom(A, d, i - 1, (rem * Limb + A[i]) % d).rem]

BigDivSmall(A, d) ==
    [quot |-> Trim(DivFrom(A, d, Len(A), 0).quot), rem |-> DivFrom(A, d, Len(A), 0).rem]

DZero == [m |-> <<>>, e |-> 0]

DNeg == [negative |-> TRUE]

\* a 53- or 54-digit quotient after rounding up may have reached the next
\* power of two
Renormalise(Q, e) ==
    IF BitLen(Q) > 53 THEN [m |-> ShiftRight(Q, 1), e |-> e + 1] ELSE [m |-> Q, e |-> e]

\* round to nearest, ties to even: Q the kept digits, half the comparison of
\* the dropped ones with one half
RoundKept(Q, half, e) ==
    IF half > 0 \/ (half = 0 /\ Q[1] % 2 = 1)
    THEN Renormalise(BigAdd(Q, <<1>>), e)
    ELSE [m |-> Q, e |-> e]

\* the double nearest to M * 2^e
RoundTo53(M, e, n) ==
    IF n = 0 THEN DZero
    ELSE IF n <= 53 THEN [m |-> BigMul(M, BigPow2(53 - n)), e |-> e - (53 - n)]
    ELSE RoundKept(ShiftRight(M, n - 53),
                   BigCmp(LowBits(M, n - 53), BigPow2(n - 54)),
                   e + (n - 53))

Round53(M, e) == RoundTo53(M, e, BitLen(M))

\* a * b and a + b for doubles that are zero or positive
FMul(a, b) ==
    IF a = DZero \/ b = DZero THEN DZero
    ELSE Round53(BigMul(a.m, b.m), a.e + b.e)

AddAligned(a, b, e) ==
    Round53(BigAdd(BigMul(a.m, BigPow2(a.e - e)), BigMul(b.m, BigPow2(b.e - e))), e)

FAdd(a, b) ==
    IF a = DZero THEN b
    ELSE IF b = DZero THEN a
    ELSE AddAligned(a, b, Min(a.e, b.e))

\* a <= b for doubles that are zero or positive
FLeq(a, b) ==
    IF a = DZero THEN TRUE
    ELSE IF b = DZero THEN FALSE
    ELSE a.e < b.e \/ (a.e = b.e /\ BigCmp(a.m, b.m) <= 0)

\* the double a decimal literal n / d denotes (d below 2^13): the quotient
\* of n * 2^70 by d, with a last digit that records a remainder
WithSticky(q) == BigAdd(BigMul(q.quot, <<2>>), IF q.rem = 0 THEN <<>> ELSE <<1>>)

Decimal(n, d) ==
    IF n < 0 THEN DNeg
    ELSE Round53(WithSticky(BigDivSmall(BigMul(BigOf(n), BigPow2(70)), d)), -71)

DOne == Decimal(1, 1)

\* _norm01(x): float(np.clip(x, 0.0, 1.0))
norm01(x) ==
    IF x = DNeg THEN DZero
    ELSE IF FLeq(DOne, x) THEN DOne
    ELSE x

\* lines 426-433, the products added from left to right
WeightedScore(p_touch_entry, p_reach_target, entry_precision, target_precision, move_realism, liquidity) ==
    FAdd(FAdd(FAdd(FAdd(FAdd(FMul(Decimal(35, 100), p_touch_entry),
                             FMul(Decimal(30, 100), p_reach_target)),
                        FMul(Decimal(12, 100), entry_precision)),
                   FMul(Decimal(6, 100), target_precision)),
              FMul(Decimal(12, 100), move_realism)),
         FMul(Decimal(5, 100), liquidity))

\* compute_entry_target_score
compute_entry_target_score(p_touch_entry, p_reach_target, entry_precision, target_precision, move_realism, liquidity) ==
    norm01(WeightedScore(norm01(p_touch_entry), norm01(p_reach_target),
                         norm01(entry_precision), norm01(target_precision),
                         norm01(move_realism), norm01(liquidity)))

-----------------------------------------------------------------------------
(* The inputs of compute_entry_target_score: six sub-scores written as      *)
(* decimals in thousandths, all equal, or all at 0.5 or 0.25 but one; below *)
(* 0, at 0, inside the range, at 1 and above 1.                             *)

SubScores == {-250, 0, 7, 100, 500, 750, 1000, 1500}

BaseScores == {250, 500}

SubScoreLists ==
    { [i \in 1..6 |-> c] : c \in SubScores }
    \cup { [i \in 1..6 |-> IF i = j THEN v ELSE c] :
             j \in 1..6, v \in SubScores, c \in BaseScores }

\* the float a sub-score written in thousandths is
Thousandths(n) == Decimal(n, 1000)

\* compute_entry_target_score on six decimals
EntryTargetScore(in) ==
    compute_entry_target_score(Thousandths(in[1]), Thousandths(in[2]), Thousandths(in[3]),
                               Thousandths(in[4]), Thousandths(in[5]), Thousandths(in[6]))

EntryInit ==
    /\ etIn \in SubScoreLists
    /\ etOut = NoEntryScore

\* one call of compute_entry_target_score
ComputeEntryTargetScore ==
    /\ etOut = NoEntryScore
    /\ etOut' = EntryTargetScore(etIn)
    /\ UNCHANGED <<etIn, exceptEntry>>

InitEntry ==
    EntryInit /\ ResolveIdle /\ LoaderIdle /\ RankIdle /\ WorldIdle /\
    ScoreIdle /\ BatchIdle /\ L1Idle /\ L2Idle /\ CompositeIdle /\
    ApiIdle /\ HistoryIdle /\ ConsumerIdle /\ OrchIdle /\ ScraperIdle /\
    CacheIdle /\ SideIdle /\ StoreIdle /\ RelIdle /\ RiskIdle

NextEntry == ComputeEntryTargetScore

SpecEntry == InitEntry /\ [][NextEntry]_vars

-----------------------------------------------------------------------------
(* The consumer scripts, consumers/L1/run.py and consumers/L2/run.py, with  *)
(* common/kafka_consumer.py.  conPc is "start" once the consumer is created *)
(* and consumer.start() is next, then "poll", "validate", "compute" and     *)
(* "print" inside the loop, and "done" when the script has ended.  A poll   *)
(* returns no message or one of a few: well formed, without exchange, with  *)
(* a price, a timestamp or a level that is no number, with a price that is  *)
(* numeric text, stale, and without a required field.                       *)

MaxPolls == 3

\* what poll() returns without a message, on an error and on invalid JSON
NoMessage == <<>>

BtcUsdt == T(sBTC \o sUSDT)

Venue == T(<<"b","i","n">>)

PolledL1 ==
    { L1Message(BtcUsdt, Venue, JInt(NowMicros), N(100 * Micro), N(101 * Micro)),
      L1Message(BtcUsdt, Absent, JInt(NowMicros), N(100 * Micro), N(101 * Micro)),
      L1Message(BtcUsdt, Venue, JInt(NowMicros), JStr(<<"a","b","c">>), N(101 * Micro)),
      L1Message(BtcUsdt, Venue, JInt(NowMicros), JStr(<<"1","0","0">>), N(101 * Micro)),
      L1Message(BtcUsdt, Venue, JStr(<<"1","0","0","0">>), N(100 * Micro), N(101 * Micro)),
      L1Message(BtcUsdt, Venue, JInt(NowMicros - Seconds(301)), N(100 * Micro), N(101 * Micro)),
      L1Message(BtcUsdt, Venue, JInt(NowMicros), Absent, N(101 * Micro)) }

GoodBids == JList(<<Level(Whole(100), Whole(2))>>)

GoodAsks == JList(<<Level(Whole(101), Whole(3))>>)

PolledL2 ==
    { L2Message(Venue, JInt(NowMicros), GoodBids, GoodAsks),
      L2Message(Absent, JInt(NowMicros), GoodBids, GoodAsks),
      L2Message(Venue, JInt(NowMicros),
                JList(<<Level(Whole(100), Whole(2)), Level(T(<<"x">>), Whole(1))>>), GoodAsks),
      L2Message(Venue, JInt(NowMicros - Seconds(301)), GoodBids, GoodAsks),
      L2Message(Venue, JInt(NowMicros), JList(<<>>), GoodAsks) }

Polled(kind) == IF kind = "L1" THEN PolledL1 ELSE PolledL2

\* run.py line 24 / 23: validate_l1(data) or validate_l2(data)
Validated(kind, data) ==
    IF kind = "L1" THEN validate_l1(data, NowMicros) ELSE validate_l2(data, NowMicros)

\* run.py line 27 / 26: compute_l1_metrics(data) or compute_depth_l2(data)
Computed(kind, data) ==
    IF kind = "L1" THEN compute_l1_metrics(data) ELSE compute_depth_l2(data, 1)

ConsumerInit ==
    /\ conKind \in {"L1", "L2"}
    /\ conPc = "start"
    /\ conData = NoMessage
    /\ conPolls = 0
    /\ conPrinted = 0
    /\ conClosed = 0
    /\ conExit = StillRunning

\* an exception raised inside the try block that no except clause catches:
\* finally closes the consumer, then the exception leaves the script
Propagates(exception) ==
    /\ conPc' = "done"
    /\ conClosed' = conClosed + 1
    /\ conExit' = exception

\* consumer.start(): the subscription, before the try block
Subscribe ==
    /\ conPc = "start"
    /\ conPc' = "poll"
    /\ UNCHANGED <<conKind, conData, conPolls, conPrinted, conClosed, conExit, exceptConsumer>>

\* KeyboardInterrupt while consumer.start() runs: no try block is entered yet
InterruptSubscribe ==
    /\ conPc = "start"
    /\ conPc' = "done"
    /\ conExit' = Raised("KeyboardInterrupt")
    /\ UNCHANGED <<conKind, conData, conPolls, conPrinted, conClosed, exceptConsumer>>

\* data = consumer.poll(); if not data: continue
Poll ==
    /\ conPc = "poll"
    /\ conPolls < MaxPolls
    /\ conPolls' = conPolls + 1
    /\ \E data \in Polled(conKind) \cup {NoMessage} :
        /\ conData' = data
        /\ conPc' = IF data = NoMessage THEN "poll" ELSE "validate"
    /\ UNCHANGED <<conKind, conPrinted, conClosed, conExit, exceptConsumer>>

\* if not validate(data): continue
Validate ==
    /\ conPc = "validate"
    /\ IF IsRaised(Validated(conKind, conData))
       THEN Propagates(Validated(conKind, conData))
       ELSE /\ conPc' = IF Validated(conKind, conData).value THEN "compute" ELSE "poll"
            /\ UNCHANGED <<conClosed, conExit>>
    /\ UNCHANGED <<conKind, conData, conPolls, conPrinted, exceptConsumer>>

\* metrics = compute(data)
Compute ==
    /\ conPc = "compute"
    /\ IF IsRaised(Computed(conKind, conData))
       THEN Propagates(Computed(conKind, conData))
       ELSE conPc' = "print" /\ UNCHANGED <<conClosed, conExit>>
    /\ UNCHANGED <<conKind, conData, conPolls, conPrinted, exceptConsumer>>

\* L1/run.py lines 32-33: the prices are printed as they came, with the
\* format :.6f, which raises ValueError for a str; L2/run.py prints floats
Printed(kind, data) ==
    IF kind = "L1" /\ (data["best_ask_price"].t = "str" \/ data["best_bid_price"].t = "str")
    THEN Raised("ValueError")
    ELSE Returned("None")

\* the print calls, then the next turn of the loop
PrintMetrics ==
    /\ conPc = "print"
    /\ IF IsRaised(Printed(conKind, conData))
       THEN Propagates(Printed(conKind, conData)) /\ UNCHANGED conPrinted
       ELSE /\ conPc' = "poll"
            /\ conPrinted' = conPrinted + 1
            /\ UNCHANGED <<conClosed, conExit>>
    /\ UNCHANGED <<conKind, conData, conPolls, exceptConsumer>>

\* KeyboardInterrupt inside the try block: except KeyboardInterrupt: pass,
\* then finally: consumer.close()
Interrupt ==
    /\ conPc \in {"poll", "validate", "compute", "print"}
    /\ conPc' = "done"
    /\ conClosed' = conClosed + 1
    /\ conExit' = Returned("None")
    /\ UNCHANGED <<conKind, conData, conPolls, conPrinted, exceptConsumer>>

InitConsumer ==
    ConsumerInit /\ ResolveIdle /\ LoaderIdle /\ RankIdle /\ WorldIdle /\
    ScoreIdle /\ BatchIdle /\ L1Idle /\ L2Idle /\ CompositeIdle /\
    ApiIdle /\ HistoryIdle /\ EntryIdle /\ OrchIdle /\ ScraperIdle /\
    CacheIdle /\ SideIdle /\ StoreIdle /\ RelIdle /\ RiskIdle

NextConsumer ==
    \/ Subscribe
    \/ InterruptSubscribe
    \/ Poll
    \/ Validate
    \/ Compute
    \/ PrintMetrics
    \/ Interrupt

SpecConsumer == InitConsumer /\ [][NextConsumer]_vars

-----------------------------------------------------------------------------
(* The orchestrator on its own: the assets it is constructed with, the    *)
(* raw volatility files the builder reads, the tables collect_signals      *)
(* loads.  Index values are quarters (0 .. 4 for 0.0 .. 1.0).              *)

AssetsOf(assets) == [given |-> TRUE, assets |-> assets]

Universes ==
    { DefaultAssets, AssetsOf(<<"BTC">>), AssetsOf(<<"BTC", "SOL">>),
      AssetsOf(<<"ETH", "BTC">>) }

BtcVolFiles == { NoSuchFile, File(<<2>>), File(<<0, 4>>) }

EthVolFiles == { NoSuchFile, File(<<>>), File(<<4>>) }

OrchMicros == Returned(<<MicrosRow({"BTC", "ETH"}, 6), MicrosRow({"BTC"}, 2)>>)

OrchInit ==
    /\ orchAssets \in Universes
    /\ orchDisk \in [btc_vol : BtcVolFiles, eth_vol : EthVolFiles,
                      macros : MacrosFiles, sector : SectorFiles,
                      social : SocialFiles, volatility : VolatilityFiles]
    /\ orchPc = "start"
    /\ orchSignals = NotCollected

\* python volatility_sentiment.py
GenerateVolatilitySentiment ==
    /\ orchPc = "start"
    /\ orchDisk' = generate_volatility_sentiment(orchDisk)
    /\ orchPc' = "built"
    /\ UNCHANGED <<orchAssets, orchSignals, exceptOrch>>

\* SentimentOrchestrator(assets).collect_signals()
CollectSignals ==
    /\ orchPc \in {"start", "built"}
    /\ orchSignals' = collect_signals(SelfAssets(orchAssets), OrchMicros, orchDisk)
    /\ orchPc' = IF orchPc = "built" THEN "built and collected" ELSE "collected"
    /\ UNCHANGED <<orchAssets, orchDisk, exceptOrch>>

InitOrch ==
    OrchInit /\ ResolveIdle /\ LoaderIdle /\ RankIdle /\ WorldIdle /\
    ScoreIdle /\ BatchIdle /\ L1Idle /\ L2Idle /\ CompositeIdle /\
    ApiIdle /\ HistoryIdle /\ EntryIdle /\ ConsumerIdle /\ ScraperIdle /\
    CacheIdle /\ SideIdle /\ StoreIdle /\ RelIdle /\ RiskIdle

NextOrch == GenerateVolatilitySentiment \/ CollectSignals

SpecOrch == InitOrch /\ [][NextOrch]_vars

-----------------------------------------------------------------------------
(* The run-everything script sentiment/scraper.py: its imports, the list  *)
(* of steps, run_step and run_all.  A step is a function that returns or   *)
(* raises an Exception.                                                    *)

\* lines 17-32
steps ==
    << "World Bank Calendar", "TradingEconomics Calendar", "Macro Scraper",
       "Macro Sentiment", "Micro Scraper", "Micro Sentiment", "Sector Scraper",
       "Sector Sentiment", "Social Scraper", "Social Sentiment",
       "BTC Vol Scraper", "ETH Vol Scraper", "Volatility Sentiment",
       "Synthetic CVI Placeholder" >>

StepNames == { steps[i] : i \in 1..Len(steps) }

\* the step functions the imports of lines 2-15 find:
\* pipelines/social/social_sentiment.py defines build_social_sentiment and
\* no generate_social_sentiment, the name line 11 imports
RepositoryModules == StepNames \ {"Social Sentiment"}

\* the repository as it is, and with the missing name provided
Installations == { RepositoryModules, StepNames }

\* lines 2-15: every from ... import ... finds its name
ImportsResolve(installed) == \A i \in 1..Len(steps) : steps[i] \in installed

ScraperInit ==
    /\ scrInstalled \in Installations
    /\ scrPc = "start"
    /\ scrCalls = <<>>
    /\ scrFailed = {}

\* python scraper.py, lines 1-15: the imports at the top of the module
ImportSteps ==
    /\ scrPc = "start"
    /\ scrPc' = IF ImportsResolve(scrInstalled) THEN "run_all" ELSE "ImportError"
    /\ UNCHANGED <<scrInstalled, scrCalls, scrFailed, exceptScraper>>

\* run_step(name, fn), lines 34-41, for the next step of the loop of
\* run_all: fn() returns, or raises an Exception that is printed
RunStep ==
    /\ scrPc = "run_all"
    /\ Len(scrCalls) < Len(steps)
    /\ scrCalls' = Append(scrCalls, steps[Len(scrCalls) + 1])
    /\ \E raises \in BOOLEAN :
           scrFailed' = IF raises THEN scrFailed \cup {steps[Len(scrCalls) + 1]}
                        ELSE scrFailed
    /\ UNCHANGED <<scrInstalled, scrPc, exceptScraper>>

\* run_all, lines 43-45: the loop is over
RunAllReturns ==
    /\ scrPc = "run_all"
    /\ Len(scrCalls) = Len(steps)
    /\ scrPc' = "returned"
    /\ UNCHANGED <<scrInstalled, scrCalls, scrFailed, exceptScraper>>

InitScraper ==
    ScraperInit /\ ResolveIdle /\ LoaderIdle /\ RankIdle /\ WorldIdle /\
    ScoreIdle /\ BatchIdle /\ L1Idle /\ L2Idle /\ CompositeIdle /\
    ApiIdle /\ HistoryIdle /\ EntryIdle /\ ConsumerIdle /\ OrchIdle /\
    CacheIdle /\ SideIdle /\ StoreIdle /\ RelIdle /\ RiskIdle

NextScraper == ImportSteps \/ RunStep \/ RunAllReturns

SpecScraper == InitScraper /\ [][NextScraper]_vars

\* the script as scheduled: it runs until it ends
FairScraper == SpecScraper /\ WF_vars(NextScraper)

-----------------------------------------------------------------------------
(* The memoized external lookups of fundamentals.py within one process:  *)
(* get_crypto_fear_greed, get_polymarket_sentiment, _fred_latest_value and *)
(* _finnhub_econ_calendar, each behind functools.lru_cache.  Values are    *)
(* whole hundredths; the calendar's value is its number of events.         *)

\* lines 146, 159, 284, 326: @lru_cache(maxsize=...)
Maxsize == [fear_greed |-> 4, polymarket |-> 64, fred |-> 256, calendar |-> 8]

Lookups == DOMAIN Maxsize

NoneValue == [none |-> TRUE]

\* what the body of a lookup returns when its fetch fails: the except
\* clauses of lines 152-153, 205-206, 302-303 and 332-333
NeutralDefault ==
    [fear_greed |-> Num(50), polymarket |-> Num(50), fred |-> NoneValue,
     calendar |-> Num(0)]

\* functools.lru_cache: the entry of a key, the entries after a hit (the
\* key becomes the most recently used) and after a miss (the least
\* recently used entry is dropped from a full cache)
IsCached(entries, key) == \E i \in 1..Len(entries) : entries[i].key = key

CachedValue(entries, key) ==
    entries[CHOOSE i \in 1..Len(entries) : entries[i].key = key].value

AfterHit(entries, key) ==
    SelectSeq(entries, LAMBDA e : e.key # key)
        \o <<[key |-> key, value |-> CachedValue(entries, key)]>>

AfterMiss(entries, key, value, maxsize) ==
    (IF Len(entries) >= maxsize THEN Tail(entries) ELSE entries)
        \o <<[key |-> key, value |-> value]>>

\* a call of the wrapper that never looks into the cache
NeverMemoized(entries, key, fetched, maxsize) ==
    [value |-> fetched, requested |-> TRUE,
     entries |-> AfterMiss(SelectSeq(entries, LAMBDA e : e.key # key), key,
                           fetched, maxsize)]

\* a call of the lru_cache wrapper: 'fetched' is what the wrapped function
\* would return now; it is called only on a miss
lru_cache(entries, key, fetched, maxsize) ==
    IF IsCached(entries, key)
    THEN [value |-> CachedValue(entries, key), requested |-> FALSE,
          entries |-> AfterHit(entries, key)]
    ELSE [value |-> fetched, requested |-> TRUE,
          entries |-> AfterMiss(entries, key, fetched, maxsize)]

\* the arguments the program calls each lookup with: none, the canonical
\* symbol of a crypto asset (line 412), the 'fred' series of a registry
\* entry (line 314), none
LookupKeys ==
    [fear_greed |-> { "()" }, polymarket |-> { "BTC", "ETH", "SOL" },
     fred |-> { "DEXUSEU", "GOLDAMGBD228NLBM" }, calendar |-> { "()" }]

\* what a fetch can give: the neutral default when it fails, else a value
Fetches(f) == { NeutralDefault[f], Num(20), Num(80) }

MaxCalls == 4

CacheInit ==
    /\ cacheStore = [f \in Lookups |-> <<>>]
    /\ cacheRequests = 0
    /\ cacheSeen = [f \in Lookups |-> [k \in {} |-> NoneValue]]
    /\ cacheCall = NoCall

\* how many calls the process has made
CallNumber == IF cacheCall = NoCall THEN 0 ELSE cacheCall.number

\* the state after a call of lookup f with argument key answered 'result'
Answered(f, key, result) ==
    /\ cacheStore' = [cacheStore EXCEPT ![f] = result.entries]
    /\ cacheRequests' = cacheRequests + (IF result.requested THEN 1 ELSE 0)
    /\ cacheSeen' =
          IF key \in DOMAIN cacheSeen[f] THEN cacheSeen
          ELSE [cacheSeen EXCEPT ![f] =
                   [k \in DOMAIN cacheSeen[f] \cup {key} |->
                       IF k = key THEN result.value ELSE cacheSeen[f][k]]]
    /\ cacheCall' =
          [lookup |-> f, key |-> key, value |-> result.value,
           requested |-> result.requested,
           again |-> key \in DOMAIN cacheSeen[f],
           number |-> CallNumber + 1]

\* one call of a memoized lookup; the world answers the fetch, if there is
\* one, with any of its values or fails
Lookup ==
    /\ CallNumber < MaxCalls
    /\ \E f \in Lookups : \E key \in LookupKeys[f] : \E fetched \in Fetches(f) :
           Answered(f, key, lru_cache(cacheStore[f], key, fetched, Maxsize[f]))
    /\ UNCHANGED exceptCache

InitCache ==
    CacheInit /\ ResolveIdle /\ LoaderIdle /\ RankIdle /\ WorldIdle /\
    ScoreIdle /\ BatchIdle /\ L1Idle /\ L2Idle /\ CompositeIdle /\
    ApiIdle /\ HistoryIdle /\ EntryIdle /\ ConsumerIdle /\ OrchIdle /\
    ScraperIdle /\ SideIdle /\ StoreIdle /\ RelIdle /\ RiskIdle

NextCache == Lookup

SpecCache == InitCache /\ [][NextCache]_vars

-----------------------------------------------------------------------------
(* The side of a prediction inside one score_prediction call: the side    *)
(* scoring.py uses for the momentum and technical alignment and the side   *)
(* entry_quality.py uses in the entry layer.  Prices and move_pct are in   *)
(* thousandths.                                                            *)

NoDirection == [given |-> FALSE]

Direction(text) == [given |-> TRUE, text |-> text]

\* pred.get("direction", "BUY"): scoring.py lines 89, 172, 187, 189, 193
GetDirection(direction) ==
    IF direction.given THEN direction.text ELSE <<"B","U","Y">>

\* (direction or ""): None and "" both give ""
OrEmpty(text) == IF text = None THEN <<>> ELSE text

\* entry_quality.py lines 45-47: _direction_norm
direction_norm(direction) ==
    IF Upper(Strip(OrEmpty(direction))) \in {<<"B","U","Y">>, <<"L","O","N","G">>}
    THEN "long" ELSE "short"

\* entry_quality.py lines 50-66: implied_target_price for finite inputs
implied_target_price(entry_price, move_pct, direction) ==
    IF direction_norm(direction) = "long"
    THEN (entry_price * (1000 + AbsInt(move_pct))) \div 1000
    ELSE (entry_price * (1000 - AbsInt(move_pct))) \div 1000

\* entry_quality.py lines 236 and 251: the chasing penalty applies
chasing(spot, entry, direction) ==
    \/ direction_norm(direction) = "long" /\ entry > spot
    \/ direction_norm(direction) = "short" /\ entry < spot

\* the text a side is handed on as (score_entry_and_move lines 460-508)
SideText(side) == IF side = "long" THEN <<"l","o","n","g">> ELSE <<"s","h","o","r","t">>

\* score_prediction lines 89-112 and 161-202 with the entry layer running:
\* the sides used and the values that depend on them
SidesOf(direction, wm, bias, entry, spot, move_pct) ==
    [ scoring |-> Scoring_normalize_direction(OrEmpty(GetDirection(direction))),
      entry |-> direction_norm(GetDirection(direction)),
      inner |-> direction_norm(SideText(direction_norm(GetDirection(direction)))),
      momentum_alignment |->
          momentum_alignment(
              Scoring_normalize_direction(OrEmpty(GetDirection(direction))), wm),
      technical_alignment |->
          technical_alignment(
              Scoring_normalize_direction(OrEmpty(GetDirection(direction))), bias),
      chasing |-> chasing(spot, entry, GetDirection(direction)),
      target |-> implied_target_price(entry, move_pct, GetDirection(direction)) ]

SideDirections ==
    { NoDirection, Direction(None), Direction(<<>>), Direction(<<"B","U","Y">>),
      Direction(<<"b","u","y">>), Direction(<<" ","l","o","n","g"," ">>),
      Direction(<<"S","E","L","L">>), Direction(<<"S","h","o","r","t">>),
      Direction(<<"H","O","L","D">>), Direction(<<"s","e","l">>) }

SideInit ==
    /\ sideIn \in [direction : SideDirections, wm : {-100, 100}, bias : {-40, 40},
                    entry : {99000, 101000}, spot : {100000}, move_pct : {4}]
    /\ sideOut = NoSides

\* score_prediction(pred) on a prediction whose entry layer runs
ScoreSides ==
    /\ sideOut = NoSides
    /\ sideOut' = SidesOf(sideIn.direction, sideIn.wm, sideIn.bias, sideIn.entry,
                          sideIn.spot, sideIn.move_pct)
    /\ UNCHANGED <<sideIn, exceptSide>>

InitSide ==
    SideInit /\ ResolveIdle /\ LoaderIdle /\ RankIdle /\ WorldIdle /\
    ScoreIdle /\ BatchIdle /\ L1Idle /\ L2Idle /\ CompositeIdle /\
    ApiIdle /\ HistoryIdle /\ EntryIdle /\ ConsumerIdle /\ OrchIdle /\
    ScraperIdle /\ CacheIdle /\ StoreIdle /\ RelIdle /\ RiskIdle

NextSide == ScoreSides

SpecSide == InitSide /\ [][NextSide]_vars

-----------------------------------------------------------------------------
(* Saving a table under a base path with save_csv_parquet and loading it  *)
(* back with the orchestrator's _load_df.  A table is one column of cells, *)
(* numbers (held by their decimal text) or text; a CSV file holds the     *)
(* cells as text.                                                          *)

\* the text to_csv writes for a cell
CsvCell(cell) == IF "num" \in DOMAIN cell THEN cell.num ELSE cell.text

\* df.to_csv: every cell as text
to_csv(table) == [i \in 1..Len(table) |-> CsvCell(table[i])]

\* the texts read_csv parses as numbers
NumericTexts == { "7", "2" }

\* pd.read_csv: a column whose texts are all numbers becomes numeric
read_csv(texts) ==
    IF \A i \in 1..Len(texts) : texts[i] \in NumericTexts
    THEN [i \in 1..Len(texts) |-> Num(texts[i])]
    ELSE [i \in 1..Len(texts) |-> Txt(texts[i])]

Frame(table) == [frame |-> table]

\* orchestrator.py _load_df with both files: the parquet file when it
\* exists and can be read, else the CSV file, else None
load_df_from(disk) ==
    IF disk.parquet.exists /\ "content" \in DOMAIN disk.parquet
    THEN Frame(disk.parquet.content)
    ELSE IF disk.csv.exists /\ "content" \in DOMAIN disk.csv
    THEN Frame(read_csv(disk.csv.content))
    ELSE NoDataFrame

\* what a failed write leaves of a file: the file as it was (the write
\* failed before the file was opened) or an unreadable file
AfterFailedWrite(file) == { file, Unreadable }

\* save_csv_parquet(df, base): the files it can leave; the CSV write is
\* tried twice and its failure raises, a failure of the Parquet write is
\* swallowed
save_csv_parquet(disk, table, csv_written, parquet_written) ==
    IF ~csv_written
    THEN { [csv |-> c, parquet |-> disk.parquet] : c \in AfterFailedWrite(disk.csv) }
    ELSE IF parquet_written
    THEN { [csv |-> File(to_csv(table)), parquet |-> File(table)] }
    ELSE { [csv |-> File(to_csv(table)), parquet |-> q] :
              q \in AfterFailedWrite(disk.parquet) }

StoreTables ==
    { <<Num("7")>>, <<Num("2"), Num("7")>>, <<Txt("7")>>, <<Txt("a"), Txt("2")>> }

MaxSaves == 2

StoreInit ==
    /\ stDisk \in [csv : {NoSuchFile, File(<<"2">>)},
                    parquet : {NoSuchFile, File(<<Num("2")>>), Unreadable}]
    /\ stSaved = NothingSaved
    /\ stLoaded = NotLoadedYet
    /\ stSaves = 0

\* save_csv_parquet(table, base)
Save ==
    /\ stSaves < MaxSaves
    /\ \E table \in StoreTables, csv_written \in BOOLEAN, parquet_written \in BOOLEAN :
          /\ stDisk' \in save_csv_parquet(stDisk, table, csv_written, parquet_written)
          /\ stSaved' = IF csv_written
                        THEN [table |-> table, parquet_written |-> parquet_written]
                        ELSE NothingSaved
    /\ stSaves' = stSaves + 1
    /\ stLoaded' = NotLoadedYet
    /\ UNCHANGED exceptStore

\* _load_df(base)
Load ==
    /\ stLoaded = NotLoadedYet
    /\ stLoaded' = load_df_from(stDisk)
    /\ UNCHANGED <<stDisk, stSaved, stSaves, exceptStore>>

InitStore ==
    StoreInit /\ ResolveIdle /\ LoaderIdle /\ RankIdle /\ WorldIdle /\
    ScoreIdle /\ BatchIdle /\ L1Idle /\ L2Idle /\ CompositeIdle /\
    ApiIdle /\ HistoryIdle /\ EntryIdle /\ ConsumerIdle /\ OrchIdle /\
    ScraperIdle /\ CacheIdle /\ SideIdle /\ RelIdle /\ RiskIdle

NextStore == Save \/ Load

SpecStore == InitStore /\ [][NextStore]_vars

-----------------------------------------------------------------------------
(* The two reliability scores of one score_prediction call, with the     *)
(* confidence a float: finite (in millionths), nan or infinite.            *)
(* structural_reliability is in 1e-4, entry_score in hundredths, the       *)
(* confidence reliability score in 1e-6 and the final score in 1e-9.       *)

\* scoring.py line 90: _safe_float(pred.get("confidence", ...), 0.5) keeps
\* nan and the infinities; line 131: np.clip(user_confidence *
\* structural_reliability, 0, 1), where inf * 0 is nan and np.clip keeps nan
FloatCrs(confidence, structural) ==
    CASE confidence.k = "nan" -> NaN
      [] confidence.k = "inf" ->
            IF structural = 0 THEN NaN
            ELSE IF confidence.sign = 1 THEN Fin(1000000) ELSE Fin(0)
      [] OTHER -> Fin(confidence_reliability_score(confidence.v \div 10000,
                                                    structural))

\* line 205: np.clip(confidence_reliability_score * (0.7 + 0.3 *
\* entry_score), 0, 1)
FloatFinal(crs, entry) ==
    IF crs.k = "nan" THEN NaN ELSE Fin(final_reliability_score(crs.v, entry))

\* lines 208-213: nan < 0.4 and nan < 0.7 are both false
FloatLabel(final) ==
    IF final.k = "nan" THEN "high" ELSE ReliabilityLabel(final.v)

\* lines 131 and 204-213 of one call
ReliabilityOf(confidence, structural, entry) ==
    [ confidence_reliability_score |-> FloatCrs(confidence, structural),
      final_reliability_score |->
          FloatFinal(FloatCrs(confidence, structural), entry),
      reliability |->
          FloatLabel(FloatFinal(FloatCrs(confidence, structural), entry)) ]

RelConfidences ==
    { Fin(-200000), Fin(0), Fin(500000), Fin(720000), Fin(1000000),
      Fin(1500000), NaN, Inf(1), Inf(-1) }

RelInit ==
    /\ relIn \in [confidence : RelConfidences,
                   structural : {0, 4750, 8000, 10000},
                   entry : {0, 50, 100}]
    /\ relOut = NoScores

\* score_prediction, lines 131 and 204-213
ScoreReliability ==
    /\ relOut = NoScores
    /\ relOut' = ReliabilityOf(relIn.confidence, relIn.structural, relIn.entry)
    /\ UNCHANGED <<relIn, exceptRel>>

InitRel ==
    RelInit /\ ResolveIdle /\ LoaderIdle /\ RankIdle /\ WorldIdle /\
    ScoreIdle /\ BatchIdle /\ L1Idle /\ L2Idle /\ CompositeIdle /\
    ApiIdle /\ HistoryIdle /\ EntryIdle /\ ConsumerIdle /\ OrchIdle /\
    ScraperIdle /\ CacheIdle /\ SideIdle /\ StoreIdle /\ RiskIdle

NextRel == ScoreReliability

SpecRel == InitRel /\ [][NextRel]_vars

-----------------------------------------------------------------------------
(* fundamentals.py: the economic-calendar risk of one prediction.  An      *)
(* event of the calendar is [currency, impact, hours]: hours is the time   *)
(* from now to the event's date.  The risk is in hundredths.               *)

sUSD == <<"U","S","D">>
sEUR == <<"E","U","R">>

\* None of _extract_fx_currencies: no currency list
NoCurrencies == {}

\* _extract_fx_currencies(canonical), lines 137-140: any six letters are cut
\* into two halves
extract_fx_currencies(canonical) ==
    IF Len(canonical) = 6 /\ IsAlpha(canonical)
    THEN {Upper(SubSeq(canonical, 1, 3)), Upper(SubSeq(canonical, 4, 6))}
    ELSE NoCurrencies

\* lines 355-357: the currencies whose events count
CurrenciesOf(canonical) ==
    IF extract_fx_currencies(canonical) = NoCurrencies THEN {sUSD}
    ELSE extract_fx_currencies(canonical)

\* lines 351-352: max(1, min(int(horizon_hours), 24))
RiskHorizon(horizon_hours) == Max(1, Min(horizon_hours, 24))

\* lines 367-384: the events counted, now <= event_dt <= cutoff, the
\* currency among currencies, the impact "high"
RelevantHigh(events, currencies, horizon) ==
    Cardinality({ i \in 1..Len(events) :
        /\ 0 <= events[i].hours /\ events[i].hours <= horizon
        /\ Upper(events[i].currency) \in currencies
        /\ events[i].impact = "high" })

\* lines 386-389: 0.5 for no event, else clip(0.65 + 0.10 * n, 0.65, 0.90)
RiskOfCount(relevant_high) ==
    IF relevant_high = 0 THEN 50
    ELSE Clip(65 + 10 * relevant_high, 65, 90)

\* get_economic_event_risk(user_input), lines 337-389, with the calendar
\* that _finnhub_econ_calendar returned
get_economic_event_risk(reg, user_input, events) ==
    IF resolve_asset(reg, user_input).data = NoData THEN 50
    ELSE IF resolve_asset(reg, user_input).data.type = "crypto" THEN 50
    ELSE IF events = <<>> THEN 50
    ELSE RiskOfCount(RelevantHigh(events,
             CurrenciesOf(resolve_asset(reg, user_input).key),
             RiskHorizon(user_input.horizon_hours)))

\* the assets asked about: the four indices, two stocks of the catalogue, a
\* fabricated stock, a currency pair, a metal, a crypto asset and a name
\* that does not resolve
RiskAssets ==
    { sSP500, sNASDAQ, sDAX, sNIKKEI, sAAPL, sTSLA, <<"I","B","M">>,
      sEURUSD, sXAUUSD, sBTC, <<"N","O","T","_","A","N","_","A","S","S","E","T">> }

RiskEvents ==
    [currency : {sUSD, sEUR}, impact : {"high", "low"}, hours : {2, 12}]

MaxEvents == 3

Calendars == UNION { [1..n -> RiskEvents] : n \in 0..MaxEvents }

RiskInit ==
    /\ riskIn \in [user_input : [asset : RiskAssets, horizon_hours : {1, 4, 48}],
                    events : Calendars]
    /\ riskOut = NoRisk

\* one call of get_economic_event_risk
GetEconomicEventRisk ==
    /\ riskOut = NoRisk
    /\ riskOut' = [risk |-> get_economic_event_risk(registry, riskIn.user_input,
                                                     riskIn.events)]
    /\ UNCHANGED <<riskIn, exceptRisk>>

InitRisk ==
    RiskInit /\ ResolveIdle /\ LoaderIdle /\ RankIdle /\ WorldIdle /\
    ScoreIdle /\ BatchIdle /\ L1Idle /\ L2Idle /\ CompositeIdle /\
    ApiIdle /\ HistoryIdle /\ EntryIdle /\ ConsumerIdle /\ OrchIdle /\
    ScraperIdle /\ CacheIdle /\ SideIdle /\ StoreIdle /\ RelIdle

NextRisk == GetEconomicEventRisk

SpecRisk == InitRisk /\ [][NextRisk]_vars

-----------------------------------------------------------------------------
(* Claims about the prediction loader.                                     *)

\* the array of the document: bare, or under the wrapper's predictions key
FileItems ==
    LET raw == predFile.raw
    IN  IF raw.t = "obj" /\ "predictions" \in DOMAIN raw.o
        THEN raw.o["predictions"] ELSE raw

HasUserId(o) == JTruthy(JOr(JOr(JGet(o, "user_id"), JGet(o, "user")), JGet(o, "uid")))

HasAsset(o) ==
    /\ JTruthy(JGet(o, "asset"))
    /\ JGet(o, "asset").t = "str" => Strip(JGet(o, "asset").s) # <<>>

Qualifies(item) == item.t = "obj" /\ HasAsset(item.o) /\ HasUserId(item.o)

\* the zero-based positions of the items that are objects with an asset and a user id
QualifyingPositions ==
    { i \in 0..(Len(FileItems.items) - 1) : Qualifies(FileItems.items[i + 1]) }

\* the j-th of them in input order
NthQualifying(j) ==
    CHOOSE i \in QualifyingPositions :
        Cardinality({ q \in QualifyingPositions : q < i }) = j - 1

\* the record the loader owes for the item at position i
OwedRecord(i) ==
    LET n == normalize_prediction(FileItems.items[i + 1].o)
    IN  IF JTruthy(n.submission_id) THEN n
        ELSE [n EXCEPT !.submission_id = JStr(PyStr(n.user_id) \o <<"-">> \o NatText(i))]

\* C3: for a document that is an array, load_predictions_json returns, in
\* input order, exactly the normalized records of the items that are objects
\* with a non-empty asset and a non-empty user id; a record without a
\* submission id gets "{user_id}-{i}", i the item's zero-based position.
C3_LoaderReturnsQualifyingRows ==
    (loaded # NotLoaded /\ predFile.exists /\ FileItems.t = "list")
    => /\ ~IsRaised(loaded)
       /\ Len(loaded.rows) = Cardinality(QualifyingPositions)
       /\ \A j \in 1..Len(loaded.rows) : loaded.rows[j] = OwedRecord(NthQualifying(j))

\* the same statement for the documents whose rows carry text (or nothing)
\* as asset and direction
C3_OnTextRows ==
    (loaded # NotLoaded /\ predFile.exists /\ FileItems.t = "list"
        /\ \A i \in 1..Len(FileItems.items) :
             FileItems.items[i].t = "obj" =>
                \A f \in {"asset", "direction"} :
                    JGet(FileItems.items[i].o, f).t \in {"str", "null"})
    => /\ ~IsRaised(loaded)
       /\ Len(loaded.rows) = Cardinality(QualifyingPositions)
       /\ \A j \in 1..Len(loaded.rows) : loaded.rows[j] = OwedRecord(NthQualifying(j))

\* the document is one object row
OneRow == predFile.exists /\ FileItems.t = "list" /\ Len(FileItems.items) = 1
            /\ FileItems.items[1].t = "obj"

RowField(f) == JGet(FileItems.items[1].o, f)

Unparseable(x) == x.t = "null" \/ ToFloat(x) = FloatError

\* C4: every record load_predictions_json returns has direction BUY or SELL
\* (anything but BUY/LONG/SELL/SHORT is BUY), confidence in [0,1] (0.5 when
\* absent or unparseable), horizon_hours a whole number in [1,24] (1 when
\* absent or unparseable) and a move_pct that, when present, is not negative.
C4_RecordsInRange ==
    (loaded # NotLoaded /\ ~IsRaised(loaded))
    => /\ \A j \in 1..Len(loaded.rows) :
            LET r == loaded.rows[j]
            IN  /\ r.direction \in {"BUY", "SELL"}
                /\ r.confidence.k = "fin"
                /\ 0 <= r.confidence.v /\ r.confidence.v <= Micro
                /\ r.horizon_hours \in 1..24
                /\ \/ r.move_pct = NoFloat
                   \/ r.move_pct = Inf(1)
                   \/ r.move_pct.k = "fin" /\ r.move_pct.v >= 0
       /\ (OneRow /\ Len(loaded.rows) = 1)
          => LET r == loaded.rows[1]
                 d == RowField("direction")
                 sell == d.t = "str" /\ Upper(Strip(d.s)) \in
                            {<<"S","E","L","L">>, <<"S","H","O","R","T">>}
             IN  /\ r.direction = IF sell THEN "SELL" ELSE "BUY"
                 /\ Unparseable(RowField("confidence")) => r.confidence = Fin(500000)
                 /\ Unparseable(RowField("horizon_hours")) => r.horizon_hours = 1

Magnitude(v) == IF v < 0 THEN -v ELSE v

\* C5: one rule for move_pct: a bare number v is stored as |v| when
\* |v| <= 0.2 and as |v|/100 when |v| > 0.2; a percent-suffixed text "X%" is
\* stored as |X|/100, divided by 100 once, for every X.
C5_MovePctOneRule ==
    (loaded # NotLoaded /\ ~IsRaised(loaded) /\ OneRow /\ Len(loaded.rows) = 1)
    => LET m == RowField("move_pct")
           stored == loaded.rows[1].move_pct
           percent == m.t = "str" /\ EndsWith(Strip(m.s), <<"%">>)
           x == IF percent THEN ParseFloat(RemoveChar(Strip(m.s), "%"))
                ELSE IF m.t \in {"num", "str"} THEN ToFloat(m) ELSE FloatError
       IN  (x # FloatError /\ x.k = "fin")
           => IF percent THEN stored = Fin(Magnitude(x.v) \div 100)
              ELSE IF Magnitude(x.v) <= 200000 THEN stored = Fin(Magnitude(x.v))
              ELSE stored = Fin(Magnitude(x.v) \div 100)

\* the bare-number half of the rule, and the percent texts up to 20%
C5_BareNumbersAndSmallPercents ==
    (loaded # NotLoaded /\ ~IsRaised(loaded) /\ OneRow /\ Len(loaded.rows) = 1)
    => LET m == RowField("move_pct")
           stored == loaded.rows[1].move_pct
           percent == m.t = "str" /\ EndsWith(Strip(m.s), <<"%">>)
           x == IF percent THEN ParseFloat(RemoveChar(Strip(m.s), "%"))
                ELSE IF m.t \in {"num", "str"} THEN ToFloat(m) ELSE FloatError
       IN  (x # FloatError /\ x.k = "fin")
           => IF percent /\ Magnitude(x.v) <= 20 * Micro
              THEN stored = Fin(Magnitude(x.v) \div 100)
              ELSE IF percent THEN stored = Fin(Magnitude(x.v) \div 10000)
              ELSE IF Magnitude(x.v) <= 200000 THEN stored = Fin(Magnitude(x.v))
              ELSE stored = Fin(Magnitude(x.v) \div 100)

-----------------------------------------------------------------------------
(* Claims about ranking.                                                   *)

\* the rows that pass every active gate, read off the arguments
PassingRows ==
    { i \in 1..Len(rankTable.rows) :
        /\ (rankArgs.min_user_conf # NoGate /\ "user_confidence" \in rankTable.columns)
              => rankTable.rows[i].user_confidence >= rankArgs.min_user_conf.min
        /\ (rankArgs.min_structural # NoGate
                /\ "structural_reliability" \in rankTable.columns)
              => rankTable.rows[i].structural_reliability >= rankArgs.min_structural.min
        /\ rankArgs.min_score # NoGate
              => rankTable.rows[i].final_reliability_score >= rankArgs.min_score.min }

SelectedRows == { i \in 1..Len(rankTable.rows) : ranked.selected[i] }

\* round(k * top_pct), a half going to the even neighbour
RoundedShare(k) ==
    LET whole == (k * rankArgs.top_pct) \div 100
        twiceRest == 2 * ((k * rankArgs.top_pct) % 100)
    IN  IF twiceRest > 100 \/ (twiceRest = 100 /\ whole % 2 = 1) THEN whole + 1
        ELSE whole

\* C6: on a table that has the score column, add_selection_flags selects the
\* max(1, round(k * top_pct)) highest-scoring of the k rows that pass all
\* active gates (all k of them when that number exceeds k): no row failing a
\* gate is selected, no unselected passing row scores strictly higher than a
\* selected row, and with k = 0 nothing is selected.
C6_SelectsTopShare ==
    (ranked # NotRanked /\ ScoreCol \in rankTable.columns) =>
        LET k == Cardinality(PassingRows)
            n == IF RoundedShare(k) < 1 THEN 1 ELSE RoundedShare(k)
        IN  /\ SelectedRows \subseteq PassingRows
            /\ Cardinality(SelectedRows) = IF n < k THEN n ELSE k
            /\ \A sel \in SelectedRows : \A u \in PassingRows \ SelectedRows :
                   rankTable.rows[u].final_reliability_score
                       <= rankTable.rows[sel].final_reliability_score
            /\ k = 0 => SelectedRows = {}

\* three rows, the best-scoring one failing the confidence gate, the other
\* two passing: round(2 * 0.5) = 1 of them is selected, the better one
C6_Witness ==
    /\ rankTable = [columns |-> AllColumns,
                    rows |-> <<ScoredRow(69, 80, 60), ScoredRow(70, 55, 20),
                               ScoredRow(70, 55, 40)>>]
    /\ rankArgs = [top_pct |-> 50, min_score |-> NoGate,
                   min_user_conf |-> Gate(70), min_structural |-> Gate(55)]
    /\ ranked = [selected |-> <<FALSE, FALSE, TRUE>>]

-----------------------------------------------------------------------------
(* Claims about the scorer.                                                *)

\* what resolve_asset makes of the prediction's asset
PredData == resolve_asset(registry, predIn).data

\* no usable market data: an unresolved asset, 50 or fewer hourly closes, or
\* no finite spot (no ticker and no hourly close for crypto, no daily close
\* otherwise)
NoUsableMarketData ==
    \/ PredData = NoData
    \/ world.bars.h <= 50
    \/ IF PredData.type = "crypto"
       THEN world.ticker = "fail" /\ world.bars.h = 0
       ELSE world.bars.d = 0

\* C7: for a prediction with no usable market data or no finite entry price,
\* score_prediction returns a row with every sub-score at its neutral default
\* (technical bias 0.0, fundamentals 0.5 for an unresolved asset, momentum
\* alignment 0.5, entry_score 0.5) and with final_reliability_score =
\* clamp(confidence_reliability_score * 0.85, 0, 1).
C7_NeutralDefaults ==
    (scored # NotScored /\ (NoUsableMarketData \/ ~IsFinite(predIn.entry_price))) =>
        /\ ~IsRaised(scored)
        /\ scored.value.technical_bias = 0
        /\ PredData = NoData => scored.value.fundamental_score = 50
        /\ scored.value.momentum_alignment = 50
        /\ scored.value.entry_score = 50
        /\ scored.value.final_reliability_score
               = Clip(scored.value.confidence_reliability_score * 850, 0, 1000000000)

\* C7, what a returned row does satisfy: in the same case entry_score is 0.5
\* and the final score is clamp(confidence_reliability_score * 0.85, 0, 1);
\* for an unresolved asset technical bias is 0.0, fundamentals 0.5 and
\* momentum alignment 0.5
C7_WhenReturned ==
    (scored # NotScored /\ ~IsRaised(scored)
     /\ (NoUsableMarketData \/ ~IsFinite(predIn.entry_price))) =>
        /\ scored.value.entry_score = 50
        /\ scored.value.final_reliability_score
               = Clip(scored.value.confidence_reliability_score * 850, 0, 1000000000)
        /\ PredData = NoData =>
               /\ scored.value.technical_bias = 0
               /\ scored.value.fundamental_score = 50
               /\ scored.value.momentum_alignment = 50

-----------------------------------------------------------------------------
(* Claims about the batch run.                                             *)

\* C8: a batch run is never halted by one prediction's missing data or
\* failing data source: whatever the credentials, the exchange and the price
\* history, get_momentums and score_prediction complete for every prediction
\* and a finished run has one scored row per prediction.
C8_BatchNeverHalted ==
    /\ batchState # "halted"
    /\ batchState = "done" => Len(scored_rows) = Len(batchPreds)

\* C8, what does hold: a run over predictions none of which resolves to a
\* crypto asset is never halted
C8_WithoutCrypto ==
    (\A i \in 1..Len(batchPreds) :
        resolve_asset(registry, batchPreds[i]).data = NoData
        \/ resolve_asset(registry, batchPreds[i]).data.type # "crypto")
    => C8_BatchNeverHalted

-----------------------------------------------------------------------------
(* Claims about get_technical_bias.                                        *)

\* the cases of the claim: unresolved asset; crypto with no client or with
\* the exchange's get_klines failing; no bar in any of the three series
DegradedCase ==
    \/ PredData = NoData
    \/ PredData.type = "crypto" /\ (binance_client = NoClient \/ world.klines = "fail")
    \/ world.bars.h = 0 /\ world.bars.d = 0 /\ world.bars.w = 0

\* C9: get_technical_bias never raises, and returns technical_bias = 0.0 with
\* a diagnostic reason whenever the asset is unresolved, the asset is crypto
\* and the exchange is unavailable (no client, or its calls fail), or no bar
\* at or before the evaluation timestamp exists in any series.
C9_NeverRaises ==
    techOut # NotAsked =>
        /\ ~IsRaised(techOut)
        /\ DegradedCase =>
               techOut.value.technical_bias = 0 /\ techOut.value.reason # ""

\* C9, what does hold: whenever get_technical_bias returns in one of these
\* cases, it returns 0.0 with a reason
C9_WhenReturned ==
    (techOut # NotAsked /\ ~IsRaised(techOut) /\ DegradedCase) =>
        techOut.value.technical_bias = 0 /\ techOut.value.reason # ""

-----------------------------------------------------------------------------
(* Claims about the L1 validation.                                         *)

\* a price that reads as a positive finite number
PositivePrice(x) == ToFloat(x).k = "fin" /\ ToFloat(x).v > 0

\* all five fields, bid > 0, ask > 0, bid < ask, timestamp within 300 s
Acceptable(data, now) ==
    /\ {"symbol", "exchange", "timestamp_utc_micros", "best_bid_price",
        "best_ask_price"} \subseteq DOMAIN data
    /\ PositivePrice(data["best_bid_price"])
    /\ PositivePrice(data["best_ask_price"])
    /\ ToFloat(data["best_bid_price"]).v < ToFloat(data["best_ask_price"]).v
    /\ data["timestamp_utc_micros"].t = "int"
    /\ AbsInt(now - data["timestamp_utc_micros"].n) <= 300 * Micro

\* C10: validate_l1 accepts a message if and only if it carries symbol,
\* exchange, timestamp, best bid and best ask, bid > 0, ask > 0, bid < ask,
\* and its timestamp differs from wall-clock time by at most 300 seconds.
C10_AcceptsIffValid ==
    l1Valid # NotValidated =>
        (l1Valid = Returned(TRUE) <=> Acceptable(l1Msg, l1Now))

\* C10, what does hold: a message validate_l1 rejects or raises on is never
\* acceptable, and the examples of the claim come out as stated (crossed
\* book rejected, 100 / 101 within 300 s accepted, 301 s old rejected)
C10_NeverRejectsValid ==
    l1Valid # NotValidated =>
        /\ Acceptable(l1Msg, l1Now) => l1Valid = Returned(TRUE)
        /\ ({"best_bid_price", "best_ask_price", "timestamp_utc_micros", "symbol"}
                \subseteq DOMAIN l1Msg
            /\ l1Msg["best_bid_price"] = N(100 * Micro)
            /\ l1Msg["timestamp_utc_micros"].t = "int") =>
               /\ l1Msg["best_ask_price"] = N(99 * Micro) => l1Valid = Returned(FALSE)
               /\ (l1Msg["best_ask_price"] = N(101 * Micro)
                   /\ l1Msg["timestamp_utc_micros"].n = l1Now - Seconds(301))
                      => l1Valid = Returned(FALSE)
               /\ (l1Msg["best_ask_price"] = N(101 * Micro)
                   /\ l1Msg["timestamp_utc_micros"].n = l1Now - Seconds(299))
                      => l1Valid = Returned(TRUE)

-----------------------------------------------------------------------------
(* Claims about the L2 depth.                                              *)

\* the price of a level that reads, as a float
LevelPrice(level) == ToFloat(LevelPair(level)[1])

\* the highest (side = 1) or lowest (side = -1) price among levels that read
BestPrice(levels, side) ==
    LevelPrice(levels[CHOOSE i \in 1..Len(levels) : \A j \in 1..Len(levels) :
                          side * LevelPrice(levels[j]).v <= side * LevelPrice(levels[i]).v])

\* the depths of the claim for the message at hand
ClaimedBidDepth ==
    DepthFrom(l2Msg["bids"].items, 1, BestPrice(l2Msg["bids"].items, 1), l2Pct, 1)

ClaimedAskDepth ==
    DepthFrom(l2Msg["asks"].items, 1, BestPrice(l2Msg["asks"].items, -1), l2Pct, -1)

\* C11: for every message validate_l2 accepted and every pct >= 0,
\* compute_depth_l2 returns bid_depth = the sum of price * quantity over the
\* bid levels at or above (highest bid price) * (1 - pct), ask_depth = the
\* same over the ask levels at or below (lowest ask price) * (1 + pct), and
\* total_depth = their sum.
C11_DepthWithinBand ==
    l2Depth # NoMetrics =>
        /\ ~IsRaised(l2Depth)
        /\ l2Depth.value.bid_depth_usd = Fin(ClaimedBidDepth)
        /\ l2Depth.value.ask_depth_usd = Fin(ClaimedAskDepth)
        /\ l2Depth.value.total_depth_usd = Fin(ClaimedBidDepth + ClaimedAskDepth)

\* C11, what does hold: when compute_depth_l2 returns and each side's first
\* level carries its best price, the depths are the claimed ones; the example
\* of the claim gives 299, 303 and 602
C11_OnBestFirstBooks ==
    (l2Depth # NoMetrics /\ ~IsRaised(l2Depth)) =>
        /\ (FirstPrice(l2Msg["bids"]) = BestPrice(l2Msg["bids"].items, 1)
            /\ FirstPrice(l2Msg["asks"]) = BestPrice(l2Msg["asks"].items, -1)) =>
               /\ l2Depth.value.bid_depth_usd = Fin(ClaimedBidDepth)
               /\ l2Depth.value.ask_depth_usd = Fin(ClaimedAskDepth)
               /\ l2Depth.value.total_depth_usd = Fin(ClaimedBidDepth + ClaimedAskDepth)
        /\ (l2Msg["bids"] = JList(<<Level(Whole(100), Whole(2)), Level(Whole(99), Whole(1))>>)
            /\ l2Msg["asks"] = JList(<<Level(Whole(101), Whole(3))>>) /\ l2Pct = 1) =>
               l2Depth.value = [bid_depth_usd |-> Fin(299 * Micro),
                                ask_depth_usd |-> Fin(303 * Micro),
                                total_depth_usd |-> Fin(602 * Micro)]

-----------------------------------------------------------------------------
(* Claims about the composite scorer.                                      *)

\* the volatility scores of a symbol in the input: how many, and their sum
VolCount(symbol) == Cardinality(SignalIndexes(csSignals, symbol, "volatility"))

VolSum(symbol) == SumScores(csSignals, SignalIndexes(csSignals, symbol, "volatility"))

\* the weighted denominator of a symbol is zero: none of its sources has a
\* positive weight
ZeroDenominator(symbol) ==
    \A s \in SourcesOf(csSignals, symbol) : s \notin DOMAIN csWeights \/ csWeights[s] = 0

\* C12: for every symbol of the input the regime is decided by its
\* volatility average v alone: risk_on if v > 0.20, risk_off if v < -0.20,
\* neutral if -0.20 <= v <= 0.20, and unknown if and only if the symbol has
\* no volatility signal or its weighted denominator is zero.
C12_RegimeFromVolatility ==
    csResult # NotScoredYet =>
        \A symbol \in SymbolsOf(csSignals) :
            /\ symbol \in DOMAIN csResult.value
            /\ csResult.value[symbol].regime = "unknown"
                   <=> (VolCount(symbol) = 0 \/ ZeroDenominator(symbol))
            /\ (VolCount(symbol) > 0 /\ ~ZeroDenominator(symbol)) =>
                   csResult.value[symbol].regime =
                       IF VolSum(symbol) > 4 * VolCount(symbol) THEN "risk_on"
                       ELSE IF VolSum(symbol) < -4 * VolCount(symbol) THEN "risk_off"
                       ELSE "neutral"

\* BTC scored with one volatility signal of 0.25 and a weighted source:
\* risk_on
C12_Witness ==
    /\ csResult # NotScoredYet
    /\ VolCount("BTC") = 1 /\ VolSum("BTC") = 5
    /\ ~ZeroDenominator("BTC")
    /\ csResult.value["BTC"].regime = "risk_on"

\* per signal: its source has a configured weight; how many signals its
\* symbol has from its source
IsWeighted(sig) == sig.source \in DOMAIN csWeights

CountLike(i) ==
    Cardinality(SignalIndexes(csSignals, csSignals[i].symbol, csSignals[i].source))

\* a symbol's sum(avg_s * w_s * c_s) and sum(w_s * c_s), written signal by
\* signal (each signal carries 1/count of its source's term), both in the
\* same unit
NumeratorTerms(symbol) ==
    [i \in 1..Len(csSignals) |->
        IF csSignals[i].symbol = symbol /\ IsWeighted(csSignals[i])
        THEN csWeights[csSignals[i].source] * csSignals[i].score
             * Min(CountLike(i), 10) * (CountLcm \div CountLike(i))
        ELSE 0]

DenominatorTerms(symbol) ==
    [i \in 1..Len(csSignals) |->
        IF csSignals[i].symbol = symbol /\ IsWeighted(csSignals[i])
        THEN csWeights[csSignals[i].source]
             * Min(CountLike(i), 10) * (CountLcm \div CountLike(i))
        ELSE 0]

RECURSIVE SeqSum(_, _)
SeqSum(seq, i) == IF i > Len(seq) THEN 0 ELSE seq[i] + SeqSum(seq, i + 1)

QuotientNum(symbol) == SeqSum(NumeratorTerms(symbol), 1)

QuotientDen(symbol) == SeqSum(DenominatorTerms(symbol), 1)

AllWeights == TotalWeight(csWeights, DOMAIN csWeights)

SentimentAndConfidence(r) == <<r.sentiment_score, r.confidence>>

\* ranges, the zero-denominator case, and sources without a weight having
\* no influence on the two values
RangesAndZeroCase(symbol) ==
    /\ csResult.value[symbol].sentiment_score \in -10000..10000
    /\ csResult.value[symbol].confidence \in 0..10000
    /\ QuotientDen(symbol) = 0 =>
           csResult.value[symbol] =
               [sentiment_score |-> 0, confidence |-> 0, regime |-> "unknown"]
    /\ QuotientDen(symbol) > 0 =>
           SentimentAndConfidence(csResult.value[symbol]) =
               SentimentAndConfidence(
                   CompositeScorer_score(csWeights, SelectSeq(csSignals, IsWeighted))[symbol])

\* C13 as stated: sentiment_score = sum(avg_s * w_s * c_s) / sum(w_s * c_s)
\* and confidence = sum(w_s * c_s) / sum(all weights) over the symbol's
\* sources with a weight, c_s = min(count_s / 10, 1); both in range; sources
\* without a weight have no influence; a zero denominator gives 0.0, 0.0 and
\* unknown.
C13_ExactQuotients ==
    csResult # NotScoredYet =>
        \A symbol \in SymbolsOf(csSignals) :
            /\ RangesAndZeroCase(symbol)
            /\ QuotientDen(symbol) > 0 =>
                   /\ csResult.value[symbol].sentiment_score * QuotientDen(symbol)
                          = QuotientNum(symbol) * 500
                   /\ csResult.value[symbol].confidence * CountLcm * AllWeights
                          = QuotientDen(symbol) * 1000

\* C13, amended: the two quotients are returned rounded to 4 decimal places
\* (each returned value is within half of 1e-4 of its quotient); the rest
\* as stated.
C13_RoundedQuotients ==
    csResult # NotScoredYet =>
        \A symbol \in SymbolsOf(csSignals) :
            /\ RangesAndZeroCase(symbol)
            /\ QuotientDen(symbol) > 0 =>
                   /\ 2 * AbsInt(csResult.value[symbol].sentiment_score * QuotientDen(symbol)
                                 - QuotientNum(symbol) * 500) <= QuotientDen(symbol)
                   /\ 2 * AbsInt(csResult.value[symbol].confidence * CountLcm * AllWeights
                                 - QuotientDen(symbol) * 1000) <= CountLcm * AllWeights

\* BTC scored from twelve micros signals (count above the cap), a volatility
\* signal and signals of a source without a weight, under the six weights
C13_Witness ==
    /\ csResult # NotScoredYet
    /\ DOMAIN csWeights = {"micros", "macros", "sector", "volatility", "social", "calendar"}
    /\ Cardinality(SignalIndexes(csSignals, "BTC", "micros")) = 12
    /\ VolCount("BTC") = 2
    /\ SignalIndexes(csSignals, "BTC", "news") # {}
    /\ csResult.value["BTC"].confidence \in 1..9999

-----------------------------------------------------------------------------
(* Claims about the sentiment service.                                      *)

\* a step that answers a request
Answers == apiRequests' # apiRequests

\* the key of the request is missing or is not the configured one
BadKey(header) == header = NoHeader \/ header[1] # API_KEY

\* the step constructed no orchestrator and left every file as it was
NothingScored == apiOrchestrated' = apiOrchestrated /\ apiFiles' = apiFiles

\* C14: every request to the sentiment endpoint whose X-API-Key header is
\* missing or differs from the configured key is answered with 401, and for
\* such a request the orchestrator is not invoked and no state changes.
C14_BadKeyAnswered401 ==
    [][ (Answers /\ BadKey(apiHeader'))
        => (apiResponse'.status = 401 /\ NothingScored) ]_vars

\* C14, as far as it holds: a key that differs is answered with 401, a
\* missing key with the framework's rejection status, and neither reaches the
\* orchestrator or changes a file.
C14_BadKeyNeverScored ==
    [][ (Answers /\ BadKey(apiHeader'))
        => /\ apiResponse'.status \in MissingKeyStatuses
           /\ apiHeader' # NoHeader => apiResponse'.status = 401
           /\ NothingScored ]_vars

\* a step that answers a request whose key was accepted
AnswersAuthenticated == Answers /\ ~BadKey(apiHeader')

\* the composite scores the orchestrator computes from the files, or what it
\* raises on the way
ComputedScores(files) ==
    IF IsRaised(CompositeScorer_init(files.weights))
    THEN CompositeScorer_init(files.weights)
    ELSE composite_scores(CompositeScorer_init(files.weights).value,
                          collect_signals(ASSET_UNIVERSE, build_micros_sentiment(files.micros_raw).result,
                                          files))

\* the asset, compared without regard to case, has an entry in the scores
HasEntry(scores, asset) == \E s \in DOMAIN scores : SymbolText[s] = Upper(asset)

\* the status the claim gives a request, given the computed scores
ClaimedStatus(computed, asset) ==
    IF IsRaised(computed) THEN 500
    ELSE IF HasEntry(computed.value, asset) THEN 200
    ELSE 400

\* C15: an authenticated GET /sentiment answers 400 if and only if the asset
\* (compared case-insensitively) has no entry in the computed composite
\* scores, 500 on every other failure during scoring (weights file missing or
\* without a valid weight, raw micros file missing, malformed per-dimension
\* data), and 200 exactly when the asset has an entry.
C15_StatusByEntry ==
    [][ AnswersAuthenticated
        => apiResponse'.status = ClaimedStatus(ComputedScores(apiFiles), apiAsset') ]_vars

\* the status by the class of what was raised: ValueError is answered as an
\* input error whatever raised it
StatusByClass(computed, asset) ==
    IF IsRaised(computed) THEN (IF computed.raised = "ValueError" THEN 400 ELSE 500)
    ELSE IF HasEntry(computed.value, asset) THEN 200
    ELSE 400

\* C15, as far as it holds: 200 exactly when the scores were computed and
\* the asset has an entry; 500 when a needed file is missing; 400 when the
\* asset has no entry and also when scoring raised a ValueError.
C15_StatusByErrorClass ==
    [][ AnswersAuthenticated
        => apiResponse'.status = StatusByClass(ComputedScores(apiFiles), apiAsset') ]_vars

\* C20: handling a GET /sentiment request leaves the on-disk per-dimension
\* sentiment files, the micros sentiment table included, exactly as they were.
C20_FilesUnchanged == [][ apiFiles' = apiFiles ]_vars

\* C20, as far as it holds: a request changes no file other than the micros
\* sentiment table, and that one only when its key was accepted.
C20_OnlyMicrosTableWritten ==
    [][ /\ \A f \in DOMAIN apiFiles \ {"micros_sentiment"} : apiFiles'[f] = apiFiles[f]
        /\ (Answers /\ BadKey(apiHeader')) => apiFiles' = apiFiles ]_vars

-----------------------------------------------------------------------------
(* Claims about lookahead.                                                  *)

\* the histories that differ from path at one tick later than t
ChangedAfter(path, t) ==
    { [path EXCEPT ![u] = p] : u \in { v \in Ticks : v > t }, p \in TickPrices }

\* C16: no lookahead: every market observation that influences the score of
\* a prediction with evaluation timestamp T (the bars' values, the spot
\* price) was observable at or before T; whatever the price does after T,
\* the derived inputs are the same.
C16_NoLookahead ==
    mkInputs # NotDerived
    => \A other \in ChangedAfter(mkPath, mkT) :
           MarketInputs(other, mkT, mkNow, mkTicker) = mkInputs

\* the last tick of the hourly bar that is running at T
EndOfBarAt(ts) == (ts \div BarLen) * BarLen + BarLen - 1

\* C16, as far as it holds: every bar used opened at or before T, so no price
\* later than the end of the bar running at T enters the closes or the
\* momentum; and when the ticker does not answer, none enters the spot price.
C16_NothingPastRunningBar ==
    mkInputs # NotDerived
    => \A other \in ChangedAfter(mkPath, EndOfBarAt(mkT)) :
           /\ MarketInputs(other, mkT, mkNow, mkTicker).closes_1h = mkInputs.closes_1h
           /\ MarketInputs(other, mkT, mkNow, mkTicker).momentum_5h = mkInputs.momentum_5h
           /\ mkTicker = "fail"
              => MarketInputs(other, mkT, mkNow, mkTicker).spot = mkInputs.spot

-----------------------------------------------------------------------------
(* Claims about the entry/target score.                                     *)

\* the result lies in [0, 1]
InUnitInterval(x) == x # DNeg /\ FLeq(x, DOne)

\* all six inputs are the same value c, inside [0, 1]
AllEqualInRange(in) == \A i \in 1..6 : in[i] = in[1] /\ in[i] >= 0 /\ in[i] <= 1000

\* raising one input never lowers the result
NonDecreasing(in, out) ==
    \A i \in 1..6 : \A v \in SubScores :
        v >= in[i] => FLeq(out, EntryTargetScore([in EXCEPT ![i] = v]))

\* C17: compute_entry_target_score returns the clamped weighted sum of its
\* clamped inputs; the result is always in [0, 1], equals c when all six
\* inputs equal c (0.5 for all-neutral inputs), and is non-decreasing in
\* each input.
C17_WeightedAverage ==
    etOut # NoEntryScore
    => /\ InUnitInterval(etOut)
       /\ AllEqualInRange(etIn) => etOut = Thousandths(etIn[1])
       /\ NonDecreasing(etIn, etOut)

\* 2^-50, a few units in the last place of a float near 1
Rounding == Round53(<<1>>, -50)

\* a and b differ by no more than the rounding of the five additions
Near(a, b) == FLeq(a, FAdd(b, Rounding)) /\ FLeq(b, FAdd(a, Rounding))

\* C17, as far as it holds: the result is in [0, 1], is non-decreasing in
\* each input, and for six inputs equal to c it is c up to floating-point
\* rounding.
C17_UpToRounding ==
    etOut # NoEntryScore
    => /\ InUnitInterval(etOut)
       /\ AllEqualInRange(etIn) => Near(etOut, Thousandths(etIn[1]))
       /\ NonDecreasing(etIn, etOut)

-----------------------------------------------------------------------------
(* Claims about the consumer scripts.                                       *)

\* C18: no message content can terminate a streaming consumer: whatever a
\* poll returned, the loop prints its metrics or drops it and keeps polling;
\* the script is never left by an exception a message caused.
C18_NoMessageEndsConsumer ==
    IsRaised(conExit) => conExit.raised = "KeyboardInterrupt"

\* the validator returns for the message, and if it lets it through the
\* processor returns and the metrics can be printed
Processable(kind, data) ==
    /\ ~IsRaised(Validated(kind, data))
    /\ Validated(kind, data).value
       => ~IsRaised(Computed(kind, data)) /\ ~IsRaised(Printed(kind, data))

\* C18, as far as it holds: a message the validator rejects is dropped
\* without a print, and one that the validator accepts and the processor can
\* read is printed; either way the loop polls again.
C18_DroppedOrPrinted ==
    [][ (Processable(conKind, conData) /\ conExit' = StillRunning)
        => /\ conPc = "validate"
              => /\ conPc' = IF Validated(conKind, conData).value THEN "compute" ELSE "poll"
                 /\ conPrinted' = conPrinted
           /\ conPc = "compute" => conPc' = "print"
           /\ conPc = "print" => conPc' = "poll" /\ conPrinted' = conPrinted + 1 ]_vars

\* C19: a KeyboardInterrupt at any point after the consumer is created
\* (during subscription, polling, validation or printing) is caught and does
\* not leave the script, and the consumer is closed exactly once; it is also
\* closed exactly once when any other exception ends the loop.
C19_InterruptCaughtClosedOnce ==
    conPc = "done"
    => conClosed = 1 /\ conExit # Raised("KeyboardInterrupt")

\* C19, as far as it holds: once the subscription is done, a
\* KeyboardInterrupt ends the script without an exception and any other
\* exception leaves it, the consumer closed exactly once in both cases; it is
\* never closed twice.
C19_ClosedOnceAfterSubscription ==
    /\ conClosed <= 1
    /\ (conPc = "done" /\ conExit # Raised("KeyboardInterrupt")) => conClosed = 1
    /\ conExit = Raised("KeyboardInterrupt") => (conClosed = 0 /\ conPolls = 0)

-----------------------------------------------------------------------------
(* Claims about the exports of the batch run.                              *)

\* row i of a file is the scored row of the i-th surviving prediction
RowOf(row, pred) == row.asset = pred.asset

InInputOrder(rows, preds) ==
    /\ Len(rows) = Len(preds)
    /\ \A i \in 1..Len(rows) : RowOf(rows[i], preds[i])

\* the run has reached its exports
HasExported == batchState = "done" /\ batchSelected # NotRanked

\* C21: within one batch run the predictions are scored in input order and
\* the files the run exports keep that order: full_ranked.csv,
\* full_ranked.json and boss_format.json each hold exactly one row per
\* prediction that survived the crypto-only filter, in input order.
C21_ExportsInInputOrder ==
    /\ Len(scored_rows) <= Len(Survivors(batchPreds))
    /\ \A i \in 1..Len(scored_rows) :
          /\ RowOf(scored_rows[i], Survivors(batchPreds)[i])
          /\ scored_rows[i].user_confidence = Survivors(batchPreds)[i].confidence
    /\ HasExported =>
          \A f \in {"full_ranked.csv", "full_ranked.json", "boss_format.json"} :
              /\ outputs[f] # NoOutput
              /\ InInputOrder(outputs[f].rows, Survivors(batchPreds))

\* a second run has exported two rows of different assets whose order by
\* score is the reverse of the input order, over the files of a first run
C21_Witness ==
    /\ HasExported
    /\ runsLeft = 0
    /\ Len(batchPreds) = 2
    /\ batchPreds[1].asset # batchPreds[2].asset
    /\ scored_rows[1].final_reliability_score
          < scored_rows[2].final_reliability_score
    /\ outputs["boss_format.json"].rows[2].scored_confidence
          = scored_rows[2].final_reliability_score

\* what selected.csv and selected.json should be after a run whose full
\* export is 'full'
SelectedOf(full) ==
    IF get_selected(full) # <<>> THEN OutFile(get_selected(full)) ELSE NoOutput

\* C22: after any sequence of batch runs into the same outputs directory,
\* selected.csv and selected.json are consistent with the most recent run:
\* they hold exactly the rows flagged selected in that run's full_ranked
\* export, and there is no such file after a run that selected nothing.
C22_SelectedOfLastRun ==
    HasExported =>
        \A f \in {"selected.csv", "selected.json"} :
            outputs[f] = SelectedOf(outputs["full_ranked.csv"].rows)

\* C22, what does hold: a run that selected a row leaves exactly its
\* selected rows in both files, and no run ever leaves the two files
\* different from each other
C22_WhenSomethingSelected ==
    /\ outputs["selected.csv"] = outputs["selected.json"]
    /\ (HasExported /\ \E i \in 1..Len(scored_rows) : batchSelected.selected[i])
        => outputs["selected.csv"] = SelectedOf(outputs["full_ranked.csv"].rows)

\* a second run that selected a row has replaced the selection of the first
C22_Witness ==
    /\ HasExported
    /\ runsLeft = 0
    /\ \E i \in 1..Len(scored_rows) : batchSelected.selected[i]
    /\ Len(outputs["selected.csv"].rows) < Len(scored_rows)

-----------------------------------------------------------------------------
(* Claims about the orchestrator's signals.                                *)

Collected == orchSignals # NotCollected /\ ~IsRaised(orchSignals)

\* the signals collected for one source and one symbol
SignalsFor(source, symbol) ==
    SelectSeq(orchSignals.value, LAMBDA g : g.source = source /\ g.symbol = symbol)

\* the table of a global dimension has rows and a sentiment_score column
Scorable(df) == ~NothingToScore(df, {"sentiment_score"})

\* one signal for the symbol, carrying the column's mean
OneMeanSignal(source, symbol) ==
    SignalsFor(source, symbol)
        = << Signal(source, symbol,
                    Mean(AsFloat(load_df(orchDisk[source]).rows),
                         1..Len(load_df(orchDisk[source]).rows))) >>

OnlyFromUniverse ==
    \A i \in 1..Len(orchSignals.value) :
        \E j \in 1..Len(SelfAssets(orchAssets)) :
            SelfAssets(orchAssets)[j] = orchSignals.value[i].symbol

\* C23: for an orchestrator constructed with any asset universe U,
\* collect_signals returns only signals whose symbol is in U, and for each
\* of macros, sector and social whose persisted table has a sentiment_score
\* column it holds exactly one signal for every asset of U, all with the
\* column's mean as score.
C23_OneSignalPerAssetOfU ==
    Collected =>
        /\ OnlyFromUniverse
        /\ \A source \in {"macros", "sector", "social"} :
              Scorable(load_df(orchDisk[source])) =>
                  \A j \in 1..Len(SelfAssets(orchAssets)) :
                      OneMeanSignal(source, SelfAssets(orchAssets)[j])

\* C23, what does hold: only symbols of U are returned, and the assets of U
\* that are BTC or ETH get the one signal per dimension
C23_ForBtcAndEthOfU ==
    Collected =>
        /\ OnlyFromUniverse
        /\ \A source \in {"macros", "sector", "social"} :
              Scorable(load_df(orchDisk[source])) =>
                  \A j \in 1..Len(SelfAssets(orchAssets)) :
                      IF SelfAssets(orchAssets)[j] \in {"BTC", "ETH"}
                      THEN OneMeanSignal(source, SelfAssets(orchAssets)[j])
                      ELSE SignalsFor(source, SelfAssets(orchAssets)[j]) = <<>>

\* the builder has run and its table holds the composite row
CompositeWritten ==
    /\ orchPc = "built and collected"
    /\ ScviRecord(orchDisk.btc_vol, orchDisk.eth_vol) # <<>>

\* C24: reading the volatility table the volatility sentiment builder
\* persists, the orchestrator emits for BTC the mean of the BTC-specific
\* rows if any, else the mean of the composite rows, and for ETH the mean of
\* the composite rows; whenever the builder has written its composite (SCVI)
\* row, ETH receives a volatility signal.
C24_CompositeReachesEth ==
    (Collected /\ CompositeWritten
       /\ \E j \in 1..Len(SelfAssets(orchAssets)) : SelfAssets(orchAssets)[j] = "ETH")
    => Len(SignalsFor("volatility", "ETH")) = 1

\* C24, what does hold: from the builder's table BTC gets the mean of the
\* BTC_VOL rows when there are any, and ETH never gets a volatility signal
C24_FromBuilderTable ==
    (Collected /\ orchPc = "built and collected"
       /\ VolatilityRecords(orchDisk.btc_vol, orchDisk.eth_vol) # <<>>)
    => /\ SignalsFor("volatility", "ETH") = <<>>
       /\ (orchDisk.btc_vol.exists /\ orchDisk.btc_vol.content # <<>>
             /\ \E j \in 1..Len(SelfAssets(orchAssets)) : SelfAssets(orchAssets)[j] = "BTC")
          => SignalsFor("volatility", "BTC")
               = << Signal("volatility", "BTC",
                       Mean(AsFloat(VolRecords(orchDisk.btc_vol, "BTC_VOL")),
                            1..Len(orchDisk.btc_vol.content))) >>

-----------------------------------------------------------------------------
(* Claims about the run-everything script.                                 *)

ScriptEnded == scrPc \in {"returned", "ImportError"}

\* C25: run_all invokes each of the fourteen scrape/sentiment steps exactly
\* once, in the fixed listed order, whichever subset of them raises: a
\* failing step is logged and never prevents a later step, and run_all
\* returns normally.
C25_EveryStepOnceInOrder ==
    ScriptEnded => (scrCalls = steps /\ scrPc = "returned")

\* C25, what does hold: once the imports of the script resolve, the steps
\* invoked are always a prefix of the list, whichever of them raised, and
\* the run ends by returning with all fourteen invoked
C25_WhenImportsResolve ==
    /\ Len(scrCalls) <= Len(steps)
    /\ scrCalls = SubSeq(steps, 1, Len(scrCalls))
    /\ scrFailed \subseteq { scrCalls[i] : i \in 1..Len(scrCalls) }
    /\ scrPc = "returned" => scrCalls = steps
    /\ scrPc = "ImportError" => (scrCalls = <<>> /\ ~ImportsResolve(scrInstalled))

\* C25, what does hold, as a progress property: with every import resolved
\* the script returns
C25_ReturnsWhenImportsResolve ==
    ImportsResolve(scrInstalled) ~> scrPc = "returned"

-----------------------------------------------------------------------------
(* Claims about the memoized lookups.                                      *)

\* C26: within one process, once a memoized external lookup has returned a
\* value for given arguments, every later call with the same arguments
\* returns the same value and issues no further external request, also when
\* the first value was the neutral default of a failed fetch.
C26_SameValueNoNewRequest ==
    (cacheCall # NoCall /\ cacheCall.again) =>
        /\ cacheCall.value = cacheSeen[cacheCall.lookup][cacheCall.key]
        /\ ~cacheCall.requested

\* a lookup whose first fetch failed is called again after two calls of
\* other arguments, and answers its neutral default
C26_Witness ==
    /\ cacheCall # NoCall
    /\ cacheCall.again
    /\ cacheCall.number = 4
    /\ cacheRequests = 3
    /\ cacheCall.lookup = "polymarket"
    /\ cacheCall.value = NeutralDefault["polymarket"]
    /\ Len(cacheStore["polymarket"]) = 3

-----------------------------------------------------------------------------
(* Claims about the side of a prediction.                                  *)

\* C27: within one score_prediction call every sub-engine reads the
\* direction as the same side: for every direction value (BUY, LONG, SELL,
\* SHORT, any other string, empty or absent) the long/short side used for
\* the momentum and technical alignment equals the side used by the entry
\* layer (chasing penalty, implied target).
C27_OneSidePerCall ==
    sideOut # NoSides =>
        /\ sideOut.entry = sideOut.scoring
        /\ sideOut.inner = sideOut.scoring
        /\ sideOut.chasing = (IF sideOut.scoring = "long"
                              THEN sideIn.entry > sideIn.spot
                              ELSE sideIn.entry < sideIn.spot)
        /\ (sideOut.target > sideIn.entry) = (sideOut.scoring = "long")

\* the direction is BUY, LONG, SELL or SHORT in any case and with any
\* surrounding blanks, or the key is absent
Recognised(direction) ==
    Upper(Strip(OrEmpty(GetDirection(direction))))
        \in { <<"B","U","Y">>, <<"L","O","N","G">>, <<"S","E","L","L">>,
              <<"S","H","O","R","T">> }

\* C27, what does hold: the sides agree for the four recognised directions
\* and for an absent key; for every other value scoring.py reads long and
\* the entry layer reads short
C27_OnRecognisedDirections ==
    sideOut # NoSides =>
        IF Recognised(sideIn.direction)
        THEN sideOut.entry = sideOut.scoring /\ sideOut.inner = sideOut.scoring
        ELSE sideOut.scoring = "long" /\ sideOut.entry = "short"
             /\ sideOut.inner = "short"

-----------------------------------------------------------------------------
(* Claims about saving and loading a table.                                *)

LoadedAfterSave == stLoaded # NotLoadedYet /\ stSaved # NothingSaved

\* C28: save then load round-trips: after save_csv_parquet(table, base)
\* has returned normally, loading the same base with the orchestrator's
\* loader yields the table just saved, whatever files existed before and
\* also when the tolerated Parquet write failed; a reader never gets the
\* data of an earlier save.
C28_LoadYieldsLastSave ==
    LoadedAfterSave => stLoaded = Frame(stSaved.table)

\* C28, what does hold: when the Parquet write of the last save succeeded,
\* the load yields the table just saved
C28_WhenParquetWritten ==
    (LoadedAfterSave /\ stSaved.parquet_written) => stLoaded = Frame(stSaved.table)

-----------------------------------------------------------------------------
(* Claims about the final reliability score.                               *)

\* 0.7 * crs <= final <= crs as floats: false when either is nan
WithinSeventyPercent(crs, final) ==
    /\ crs.k = "fin" /\ final.k = "fin"
    /\ 700 * crs.v <= final.v
    /\ final.v <= 1000 * crs.v

\* crs >= 0.7 as floats
AtLeastSeventy(crs) == crs.k = "fin" /\ crs.v >= 700000

\* C29: for every prediction, 0.7 x confidence_reliability_score <=
\* final_reliability_score <= confidence_reliability_score, and the label
\* "high" is reached only when the confidence reliability score is at least
\* 0.7.
C29_FinalWithinSeventyPercent ==
    relOut # NoScores =>
        /\ WithinSeventyPercent(relOut.confidence_reliability_score,
                                relOut.final_reliability_score)
        /\ relOut.reliability = "high"
              => AtLeastSeventy(relOut.confidence_reliability_score)

\* C29, what does hold: the bounds and the rule for "high" whenever the
\* confidence reliability score is a number; in binary floating point the
\* factor 0.7 + 0.3 * 1.0 is exactly 1.0, so the upper bound is met, not
\* passed, at entry_score 1
C29_WhenCrsIsANumber ==
    /\ FAdd(Decimal(7, 10), FMul(Decimal(3, 10), DOne)) = DOne
    /\ (relOut # NoScores /\ relOut.confidence_reliability_score.k = "fin") =>
          /\ WithinSeventyPercent(relOut.confidence_reliability_score,
                                  relOut.final_reliability_score)
          /\ relOut.reliability = "high"
                => AtLeastSeventy(relOut.confidence_reliability_score)

-----------------------------------------------------------------------------
(* Claims about the economic-calendar risk.                                *)

\* the asset of the call resolves to an index or a stock
IndexOrStock ==
    /\ resolve_asset(registry, riskIn.user_input).data # NoData
    /\ resolve_asset(registry, riskIn.user_input).data.type \in {"index", "stock"}

\* the risk that counting the high-impact USD events of the horizon gives
UsdRisk ==
    IF riskIn.events = <<>> THEN 50
    ELSE RiskOfCount(RelevantHigh(riskIn.events, {sUSD},
                                  RiskHorizon(riskIn.user_input.horizon_hours)))

\* C30: for every non-crypto asset that is not a currency pair or a metal
\* quoted against a currency (the indices SP500, NASDAQ, DAX, NIKKEI, the
\* stocks and every fabricated stock), get_economic_event_risk counts the
\* high-impact calendar events whose currency is USD.
C30_IndicesAndStocksCountUsd ==
    (riskOut # NoRisk /\ IndexOrStock) => riskOut.risk = UsdRisk

\* C30, what does hold: the USD events are counted for every index and stock
\* whose canonical name is not six letters long, which leaves out NASDAQ and
\* NIKKEI
C30_UnlessSixLetters ==
    (/\ riskOut # NoRisk
     /\ IndexOrStock
     /\ Len(resolve_asset(registry, riskIn.user_input).key) # 6)
        => riskOut.risk = UsdRisk

====
